---- MODULE Spec2Model ----
(***************************************************************************)
(* A model of the IRCC processing-times dashboard: the week identifier,    *)
(* the snapshot loader and its URL-keyed cache, and the historical         *)
(* aggregator of DataService.                                              *)
(*                                                                         *)
(* Conventions.                                                            *)
(*  - A JavaScript Date is its number of whole days since 1970-01-01; the  *)
(*    code only ever builds dates at midnight and subtracts multiples of   *)
(*    24 h, so a day count is exact as long as the local time zone has no  *)
(*    daylight-saving shift.                                               *)
(*  - A JavaScript string that the code formats or parses (a filename, a   *)
(*    week label) is the sequence of its characters.                       *)
(*  - null is the empty sequence <<>> where a value is optional, and       *)
(*    NullInt where the code stores null in a numeric field.               *)
(*  - An await of fetch() followed by an await of response.json() is one   *)
(*    step: between the two the task touches no shared state.              *)
(***************************************************************************)
EXTENDS Integers, Sequences, FiniteSets, TLC

VARIABLES
    now,          \* new Date(): the current date
    wk,           \* the last result of getWeekNumber (<<>>: none yet)
    files,        \* the last result of generateWeeklyFileList (<<>>: none yet)
    weeklyData,   \* DataService.weeklyData
    lw,           \* the loadWeeklyData invocations, one per task
    cache,        \* DataService.cache
    countries,    \* DataService.countries
    currentData,  \* DataService.currentData
    cw,           \* the initialize / fetchWithCache invocations, one per task
    hist,         \* what the directory fetches have returned so far
    arg,          \* the value a charting or reporting function is applied to
    sv,           \* the findMostRecentServicesFile invocation
    tab,          \* the loadInCanadaServices invocation and what its tab shows
    app,          \* IRCCApp: the selected country and what the page shows
    ev            \* what the last step received and returned

vars == <<now, wk, files, weeklyData, lw,
          cache, countries, currentData, cw, hist, arg, sv, tab, app, ev>>

weekVars == <<wk, files>>
loadVars == <<weeklyData, lw>>
cacheVars == <<cache, countries, currentData, cw, hist>>
sideVars == <<arg, sv, tab, app>>

----------------------------------------------------------------------------
(* Bounds of the model.                                                    *)

\* The current dates explored: FirstDay .. FirstDay + DaySpan.
DaySpan == 1500

\* The explicit maxWeeks arguments explored: 0 .. MaxWeeksArg (and the default).
MaxWeeksArg == 2

\* How deep the JSON values given to the time-value extractor nest.
MaxDepth == 2

\* How many historical records a list given to prepareChartData holds.
MaxRecords == 3

\* How many points a series given to calculateTrend holds.
MaxPoints == 8

\* How many category blocks a current processing-times document holds.
MaxBlocks == 3

MaxCategories == 2

MaxPassed == 2

MaxCompared == 2

----------------------------------------------------------------------------
(* JavaScript numbers, strings and dates.                                  *)

NullInt == -1

Digit == <<"0", "1", "2", "3", "4", "5", "6", "7", "8", "9">>

IsDigit(c) == \E k \in 1..10 : Digit[k] = c

DigitValue(c) == (CHOOSE k \in 1..10 : Digit[k] = c) - 1

RECURSIVE toString(_)
\* Number.prototype.toString of a non-negative integer.
toString(n) ==
    IF n < 10 THEN <<Digit[n + 1]>>
    ELSE toString(n \div 10) \o <<Digit[(n % 10) + 1]>>

\* String.prototype.padStart(2, '0').
padStart2(s) == IF Len(s) < 2 THEN <<"0">> \o s ELSE s

RECURSIVE parseInt(_)
\* parseInt of a non-empty string of decimal digits.
parseInt(s) ==
    IF Len(s) = 1 THEN DigitValue(s[1])
    ELSE 10 * parseInt(SubSeq(s, 1, Len(s) - 1)) + DigitValue(s[Len(s)])

\* Math.ceil(a / b) for b > 0.
CeilDiv(a, b) == (a + b - 1) \div b

\* Days from 1970-01-01 to the civil date y-m-d (proleptic Gregorian, m in 1..12):
\* the year is counted from March 1, so that a leap day ends it.
DaysOfEra(era, yoe, doy) ==
    era * 146097 + (yoe * 365 + yoe \div 4 - yoe \div 100 + doy) - 719468

DaysOfMarchYear(yy, mp, d) ==
    DaysOfEra(yy \div 400, yy % 400, (153 * mp + 2) \div 5 + d - 1)

DaysFromCivil(y, m, d) ==
    DaysOfMarchYear(IF m <= 2 THEN y - 1 ELSE y, IF m > 2 THEN m - 3 ELSE m + 9, d)

\* The civil date of a day count, as [year, month (0..11), date]: the calendar
\* year from the 400-year era and the year of the era, the month and the day
\* from the day of the year counted from March 1.
CivilOfMp(era, yoe, doy, mp) ==
    [year  |-> yoe + era * 400 + (IF mp >= 10 THEN 1 ELSE 0),
     month |-> (IF mp < 10 THEN mp + 3 ELSE mp - 9) - 1,
     date  |-> doy - (153 * mp + 2) \div 5 + 1]

CivilOfDoy(era, yoe, doy) == CivilOfMp(era, yoe, doy, (5 * doy + 2) \div 153)

CivilOfYoe(era, doe, yoe) ==
    CivilOfDoy(era, yoe, doe - (365 * yoe + yoe \div 4 - yoe \div 100))

CivilOfDoe(era, doe) ==
    CivilOfYoe(era, doe,
               (doe - doe \div 1460 + doe \div 36524 - doe \div 146096) \div 365)

CivilFromDays(n) == CivilOfDoe((n + 719468) \div 146097, (n + 719468) % 146097)

\* new Date(year, month, day) and Date.UTC(year, month, day): month is 0-based, a
\* day outside the month rolls over, and a year in 0..99 means 1900 + year.
MakeDate(year, month, day) ==
    DaysFromCivil(IF year >= 0 /\ year <= 99 THEN 1900 + year ELSE year,
                  month + 1, 1) + (day - 1)

getFullYear(date) == CivilFromDays(date).year
getMonth(date) == CivilFromDays(date).month
getDate(date) == CivilFromDays(date).date

\* Date.prototype.getUTCDay: 0 is Sunday; 1970-01-01 was a Thursday.
getUTCDay(date) == (date + 4) % 7

----------------------------------------------------------------------------
(* The week identifier.                                                    *)

dayNumNoSunday(d) == getUTCDay(d)

\* const dayNum = d.getUTCDay() || 7;
dayNum(d) == IF getUTCDay(d) = 0 THEN 7 ELSE getUTCDay(d)

\* Math.ceil((((d - yearStart) / 86400000) + 1) / 7), yearStart being January 1
\* of d's year.
WeekOfYear(d) == CeilDiv((d - MakeDate(getFullYear(d), 0, 1)) + 1, 7)

\* d.setUTCDate(d.getUTCDate() + 4 - dayNum): d moves to the Thursday of its week.
WeekOfUTCDate(d) == WeekOfYear(d + 4 - dayNum(d))

\* Date.UTC(date.getFullYear(), date.getMonth(), date.getDate()), of the civil
\* date c.
UTCDate(c) == MakeDate(c.year, c.month, c.date)

getWeekNumber(date) == WeekOfUTCDate(UTCDate(CivilFromDays(date)))

\* `${year}-W${week.toString().padStart(2, '0')}.json`
WeekFileName(year, week) ==
    toString(year) \o <<"-", "W">> \o padStart2(toString(week))
        \o <<".", "j", "s", "o", "n">>

\* The number of weeks generateWeeklyFileList walks back.
FallbackWeeks == 52

RECURSIVE Reverse(_)
Reverse(s) == IF s = <<>> THEN <<>> ELSE Reverse(Tail(s)) \o <<Head(s)>>

\* The name pushed for weekDate.
FileNameOfDate(weekDate) ==
    WeekFileName(getFullYear(weekDate), getWeekNumber(weekDate))

generateWeeklyFileList(currentDate) ==
    Reverse([k \in 1..FallbackWeeks |-> FileNameOfDate(currentDate - (k - 1) * 7)])

\* parseWeekFilename: the leftmost match of /(\d{4})-W(\d{2})\.json/.
MatchesAt(s, i) ==
    /\ i + 12 <= Len(s)
    /\ \A k \in 0..3 : IsDigit(s[i + k])
    /\ s[i + 4] = "-"
    /\ s[i + 5] = "W"
    /\ \A k \in 6..7 : IsDigit(s[i + k])
    /\ SubSeq(s, i + 8, i + 12) = <<".", "j", "s", "o", "n">>

parseWeekFilename(filename) ==
    IF \E i \in 1..Len(filename) : MatchesAt(filename, i)
    THEN LET i == CHOOSE i \in 1..Len(filename) :
                     /\ MatchesAt(filename, i)
                     /\ \A j \in 1..(i - 1) : ~MatchesAt(filename, j)
         IN  [year |-> parseInt(SubSeq(filename, i, i + 3)),
              week |-> parseInt(SubSeq(filename, i + 6, i + 7))]
    ELSE [year |-> NullInt, week |-> NullInt]

----------------------------------------------------------------------------
(* JSON values.  An object keeps its entries in document order, as          *)
(* Object.entries and Object.values enumerate them.                         *)

JNull == [t |-> "null"]
JUndefined == [t |-> "undefined"]
JNum(n) == [t |-> "num", n |-> n]
JStr(s) == [t |-> "str", s |-> s]
JBool(b) == [t |-> "bool", b |-> b]
JArr(a) == [t |-> "arr", a |-> a]
JObj(e) == [t |-> "obj", e |-> e]

Entry(k, v) == [k |-> k, v |-> v]

HasKey(o, k) == o.t = "obj" /\ \E i \in 1..Len(o.e) : o.e[i].k = k

\* o[k] for a string key k that is no built-in property: undefined unless o is an
\* object holding k.  (On null and undefined the access throws: see Nullish.)
Get(o, k) ==
    IF HasKey(o, k)
    THEN o.e[CHOOSE i \in 1..Len(o.e) : o.e[i].k = k].v
    ELSE JUndefined

Nullish(v) == v.t \in {"null", "undefined"}

\* ToBoolean.
Truthy(v) ==
    CASE v.t = "num" -> v.n # 0
      [] v.t = "str" -> v.s # <<>>
      [] v.t = "bool" -> v.b
      [] v.t \in {"null", "undefined"} -> FALSE
      [] OTHER -> TRUE

----------------------------------------------------------------------------
(* The ISO-8601 week of a date, stated from its definition: weeks start on *)
(* Monday, and week 1 of a year is the week holding its first Thursday.    *)

\* Monday = 1 .. Sunday = 7.
IsoWeekday(n) == ((n + 3) % 7) + 1

\* The Thursday of the Monday-to-Sunday week that holds day n.
ThursdayOfWeek(n) == n - (IsoWeekday(n) - 1) + 3

\* The first Thursday of civil year y.
FirstThursday(y) ==
    CHOOSE t \in DaysFromCivil(y, 1, 1)..DaysFromCivil(y, 1, 7) : IsoWeekday(t) = 4

IsoYear(n) == CivilFromDays(ThursdayOfWeek(n)).year

IsoWeek(n) == (ThursdayOfWeek(n) - FirstThursday(IsoYear(n))) \div 7 + 1

----------------------------------------------------------------------------
(* The week identifier on its own: a current date is drawn, and the two    *)
(* functions are applied to it.                                            *)

FirstDay == DaysFromCivil(1998, 12, 20)

Dates == FirstDay..(FirstDay + DaySpan)

NoEvent == [op |-> "none"]

WeekInit ==
    /\ now \in Dates
    /\ wk = <<>>
    /\ files = <<>>
    /\ weeklyData = <<>>
    /\ lw = <<>>
    /\ cache = <<>>
    /\ countries = <<>>
    /\ currentData = <<>>
    /\ cw = <<>>
    /\ hist = <<>>
    /\ arg = <<>>
    /\ sv = <<>>
    /\ tab = <<>>
    /\ app = <<>>
    /\ ev = NoEvent

GetWeekNumber ==
    /\ wk' = <<getWeekNumber(now)>>
    /\ UNCHANGED <<now, sideVars, files, loadVars, cacheVars, ev>>

GenerateWeeklyFileList ==
    /\ files' = generateWeeklyFileList(now)
    /\ UNCHANGED <<now, sideVars, wk, loadVars, cacheVars, ev>>

WeekNext == GetWeekNumber \/ GenerateWeeklyFileList

SpecWeek == WeekInit /\ [][WeekNext]_vars

----------------------------------------------------------------------------
(* The network, as the snapshot loader sees it.                            *)

\* What an awaited fetch(url) followed by response.json() can come to: the fetch
\* rejects; it resolves with a non-success status; it resolves with a success
\* status and a body that json() rejects (body = <<>>) or parses (body = <<v>>).
Throw == [kind |-> "throw"]
NotOk == [kind |-> "response", ok |-> FALSE, body |-> <<>>]
Malformed == [kind |-> "response", ok |-> TRUE, body |-> <<>>]
Ok(v) == [kind |-> "response", ok |-> TRUE, body |-> <<v>>]

Chars12Days == <<"1", "2", " ", "d", "a", "y", "s">>
Chars3Weeks == <<"3", " ", "w", "e", "e", "k", "s">>
CharsUpdated == <<"2", "0", "2", "4", "-", "0", "1", "-", "0", "9">>

\* Three snapshot files the server holds.  FX is named without the leading zero of
\* its week, so it does not match the pattern parseWeekFilename looks for.
F1 == WeekFileName(2024, 1)
F2 == WeekFileName(2024, 2)
FX == toString(2024) \o <<"-", "W">> \o toString(3) \o <<".", "j", "s", "o", "n">>

Body1 ==
    JObj(<<Entry("visitor", JObj(<<Entry("lastupdated", JStr(CharsUpdated)),
                                   Entry("IN", JStr(Chars12Days))>>)),
           Entry("study", JObj(<<Entry("IN", JNum(0)),
                                 Entry("PH", JObj(<<Entry("weeks", JNum(3))>>))>>))>>)

Body2 ==
    JObj(<<Entry("study", JObj(<<Entry("IN", JNum(4)),
                                 Entry("PH", JStr(Chars3Weeks))>>)),
           Entry("visitor", JObj(<<Entry("IN", JStr(Chars12Days))>>))>>)

BodyX ==
    JObj(<<Entry("visitor", JObj(<<Entry("IN", JNum(9)), Entry("PH", JNum(7))>>))>>)

ServerFiles == {F1, F2, FX}

BodyOf(f) == CASE f = F1 -> Body1 [] f = F2 -> Body2 [] OTHER -> BodyX

\* A file the server does not hold is answered 404; any fetch can reject.
FileResponses(f) ==
    {Throw, NotOk} \cup (IF f \in ServerFiles THEN {Malformed, Ok(BodyOf(f))} ELSE {})

AnyFileResponse == {Throw, NotOk, Malformed} \cup {Ok(BodyOf(f)) : f \in ServerFiles}

\* weekly/index.json: a list of filenames oldest first, a list in no order that
\* also names FX, or a document that is no list.
IndexDocs == {JArr(<<F1, F2>>), JArr(<<F2, FX, F1>>), JObj(<<>>)}

IndexResponses == {Throw, NotOk, Malformed} \cup {Ok(d) : d \in IndexDocs}

----------------------------------------------------------------------------
(* The snapshot loader.                                                    *)

\* Two invocations of loadWeeklyData can be under way at once: the one init
\* starts in the background and one a refresh click starts.
Tasks == {"t1", "t2"}

\* maxWeeks: an explicit argument, or the default.
DefaultMaxWeeks == 52

MaxWeeksArgs == (0..MaxWeeksArg) \cup {DefaultMaxWeeks}

Max(a, b) == IF a >= b THEN a ELSE b
Min(a, b) == IF a <= b THEN a ELSE b

\* Array.prototype.slice(start).
slice(a, start) ==
    LET len == Len(a)
        k   == IF start < 0 THEN Max(len + start, 0) ELSE Min(start, len)
    IN  SubSeq(a, k + 1, len)

\* The current date while the loader runs, and generateWeeklyFileList tabulated
\* on it.
LoadDate == DaysFromCivil(2024, 1, 10)

WeeklyFileListOn == [d \in {LoadDate} |-> generateWeeklyFileList(d)]

\* A result of a call that can throw.
Returned(v) == [threw |-> FALSE, value |-> v]
Thrown == [threw |-> TRUE, value |-> JUndefined]

\* fetchWeeklyIndex, given what its fetch came to and what generateWeeklyFileList
\* would return.
IndexNoCatch(resp, fallback) ==
    IF resp.kind = "throw" THEN Thrown
    ELSE IF ~resp.ok THEN Returned(fallback)
    ELSE IF resp.body = <<>> THEN Thrown
    ELSE Returned(resp.body[1])

IndexOrFallback(resp, fallback) ==
    IF resp.kind = "throw" THEN Returned(fallback)           \* catch
    ELSE IF ~resp.ok THEN Returned(fallback)
    ELSE IF resp.body = <<>> THEN Returned(fallback)         \* json() rejects: catch
    ELSE Returned(resp.body[1])

fetchWeeklyIndex(resp, currentDate) ==
    IndexOrFallback(resp, JArr(WeeklyFileListOn[currentDate]))

\* Number(x) of a year or week field.
Num(x) == IF x = NullInt THEN 0 ELSE x

\* The object loadWeeklyData pushes for a fetched file.
Snapshot(filename, data) ==
    LET weekInfo == parseWeekFilename(filename)
    IN  [filename  |-> filename,
         year      |-> weekInfo.year,
         week      |-> weekInfo.week,
         data      |-> data,
         timestamp |-> MakeDate(Num(weekInfo.year), 0,
                                1 + (Num(weekInfo.week) - 1) * 7)]

RECURSIVE InsertByTimestamp(_, _)
InsertByTimestamp(x, s) ==
    IF s = <<>> THEN <<x>>
    ELSE IF x.timestamp - Head(s).timestamp < 0 THEN <<x>> \o s
    ELSE <<Head(s)>> \o InsertByTimestamp(x, Tail(s))

RECURSIVE SortFrom(_, _)
SortFrom(s, acc) ==
    IF s = <<>> THEN acc ELSE SortFrom(Tail(s), InsertByTimestamp(Head(s), acc))

NoSort(s) == s

\* this.weeklyData.sort((a, b) => a.timestamp - b.timestamp): a stable sort.
SortByTimestamp(s) == SortFrom(s, <<>>)

IdleLoad ==
    [pc |-> "idle", maxWeeks |-> 0, weeklyFiles |-> JUndefined, recentFiles |-> <<>>,
     i |-> 0, fetched |-> <<>>, loaded |-> <<>>]

\* What a finished call is seen to have done: its argument, the list
\* fetchWeeklyIndex gave it, the files it fetched, those whose fetch succeeded and
\* parsed, whether its outer catch ran, and the list it returned.
LoadReturn(call, caught, value) ==
    [maxWeeks |-> call.maxWeeks, weeklyFiles |-> call.weeklyFiles,
     fetched |-> call.fetched, loaded |-> call.loaded,
     caught |-> caught, value |-> value]

\* loadWeeklyData(maxWeeks) up to its first await: the index fetch is issued.
LoadWeeklyData(t, maxWeeks) ==
    /\ lw[t].pc = "idle"
    /\ lw' = [lw EXCEPT ![t] = [IdleLoad EXCEPT !.pc = "index", !.maxWeeks = maxWeeks]]
    /\ ev' = NoEvent
    /\ UNCHANGED <<now, sideVars, weekVars, weeklyData, cacheVars>>

\* As StartLoop, with the fetches of all the files issued at once.
StartLoopAllAtOnce(t, call, event, recentFiles) ==
    IF recentFiles = <<>>
    THEN /\ weeklyData' = SortByTimestamp(<<>>)
         /\ lw' = [lw EXCEPT ![t] = IdleLoad]
         /\ ev' = [event EXCEPT !.returned = <<LoadReturn(call, FALSE, weeklyData')>>]
    ELSE /\ weeklyData' = <<>>
         /\ lw' = [lw EXCEPT ![t] = [call EXCEPT !.pc = "file",
                                                 !.recentFiles = recentFiles,
                                                 !.i = 1,
                                                 !.fetched = recentFiles]]
         /\ ev' = event

\* loadWeeklyData once fetchWeeklyIndex has returned `index`: the list is cut to
\* its last maxWeeks names, this.weeklyData is emptied, and the first snapshot
\* fetch is issued (or, with nothing to fetch, the call returns).
StartLoop(t, call, event, recentFiles) ==
    IF recentFiles = <<>>
    THEN /\ weeklyData' = SortByTimestamp(<<>>)
         /\ lw' = [lw EXCEPT ![t] = IdleLoad]
         /\ ev' = [event EXCEPT !.returned = <<LoadReturn(call, FALSE, weeklyData')>>]
    ELSE /\ weeklyData' = <<>>
         /\ lw' = [lw EXCEPT ![t] = [call EXCEPT !.pc = "file",
                                                 !.recentFiles = recentFiles,
                                                 !.i = 1,
                                                 !.fetched = <<recentFiles[1]>>]]
         /\ ev' = event

AfterIndex(t, call, event, index) ==
    IF index.threw \/ index.value.t # "arr"
    THEN \* the outer catch: a rejection, or weeklyFiles.slice is no function
         /\ lw' = [lw EXCEPT ![t] = IdleLoad]
         /\ ev' = [event EXCEPT !.returned = <<LoadReturn(call, TRUE, <<>>)>>]
         /\ UNCHANGED weeklyData
    ELSE StartLoop(t, call, event, slice(index.value.a, -call.maxWeeks))

IndexReturns(t, resp, index) ==
    AfterIndex(t, [lw[t] EXCEPT !.weeklyFiles = index.value],
               [op |-> "fetchWeeklyIndex", task |-> t, resp |-> resp,
                result |-> index, returned |-> <<>>],
               index)

\* The answer to the index fetch arrives.
IndexResponse(t, resp) ==
    /\ lw[t].pc = "index"
    /\ IndexReturns(t, resp, fetchWeeklyIndex(resp, now))
    /\ UNCHANGED <<now, sideVars, weekVars, cacheVars>>

\* The answer to the fetch of recentFiles[i] arrives: a parsed body is pushed,
\* anything else is skipped; then the next file is fetched or, after the last
\* one, the list is sorted and returned.
FileResponse(t, resp) ==
    /\ lw[t].pc = "file"
    /\ LET filename == lw[t].recentFiles[lw[t].i]
           parsed   == resp.kind = "response" /\ resp.ok /\ resp.body # <<>>
           pushed   == IF parsed
                       THEN Append(weeklyData, Snapshot(filename, resp.body[1]))
                       ELSE weeklyData
           call     == IF parsed
                       THEN [lw[t] EXCEPT !.loaded = Append(@, filename)]
                       ELSE lw[t]
       IN  /\ resp \in FileResponses(filename)
           /\ IF call.i < Len(call.recentFiles)
              THEN /\ weeklyData' = pushed
                   /\ lw' = [lw EXCEPT ![t] =
                                [call EXCEPT !.i = call.i + 1,
                                             !.fetched = Append(call.fetched,
                                                 call.recentFiles[call.i + 1])]]
                   /\ ev' = NoEvent
              ELSE /\ weeklyData' = SortByTimestamp(pushed)
                   /\ lw' = [lw EXCEPT ![t] = IdleLoad]
                   /\ ev' = [op |-> "loadWeeklyData", task |-> t,
                             returned |-> <<LoadReturn(call, FALSE, weeklyData')>>]
    /\ UNCHANGED <<now, sideVars, weekVars, cacheVars>>

----------------------------------------------------------------------------
(* The historical aggregator.                                              *)

CountryCodes == {"IN", "PH"}

Categories == {"visitor", "study"}

\* !x of a year or week field: null and 0 are falsy.
FalsyInt(x) == x = NullInt \/ x = 0

\* `${weekData.year}-W${weekData.week.toString().padStart(2, '0')}`
WeekLabel(year, week) == toString(year) \o <<"-", "W">> \o padStart2(toString(week))

HistoricalRecord(weekData, category, countryCode, data) ==
    [date     |-> weekData.timestamp,
     week     |-> WeekLabel(weekData.year, weekData.week),
     category |-> category,
     country  |-> countryCode,
     data     |-> data]

\* The records one snapshot adds, for a category filter (<<>>: none given);
\* Thrown where the code raises a TypeError.
SkipsNothing(weekData) == FALSE

\* if (!weekData.year || !weekData.week) return;
SkipsSnapshot(weekData) == FalsyInt(weekData.year) \/ FalsyInt(weekData.week)

RecordsOfFiltered(weekData, countryCode, category) ==
    IF Nullish(weekData.data) THEN Thrown
    ELSE LET block == Get(weekData.data, category)
         IN  IF Truthy(block) /\ Truthy(Get(block, countryCode))
             THEN IF weekData.week = NullInt THEN Thrown   \* null.toString()
                  ELSE Returned(<<HistoricalRecord(weekData, category, countryCode,
                                                   Get(block, countryCode))>>)
             ELSE Returned(<<>>)

RECURSIVE RecordsOfEntries(_, _, _)
RecordsOfEntries(weekData, countryCode, entries) ==
    IF entries = <<>> THEN Returned(<<>>)
    ELSE LET cat       == Head(entries).k
             block == Head(entries).v
             rest      == RecordsOfEntries(weekData, countryCode, Tail(entries))
         IN  IF Nullish(block) THEN Thrown
             ELSE IF Truthy(Get(block, countryCode))
             THEN IF weekData.week = NullInt \/ rest.threw THEN Thrown
                  ELSE Returned(<<HistoricalRecord(weekData, cat, countryCode,
                                                   Get(block, countryCode))>>
                                \o rest.value)
             ELSE rest

RecordsOf(weekData, countryCode, category) ==
    IF SkipsSnapshot(weekData) THEN Returned(<<>>)
    ELSE IF category # <<>>
    THEN RecordsOfFiltered(weekData, countryCode, category[1])
    ELSE IF Nullish(weekData.data) THEN Thrown
    ELSE IF weekData.data.t # "obj" THEN Returned(<<>>)
    ELSE RecordsOfEntries(weekData, countryCode, weekData.data.e)

RECURSIVE getHistoricalData(_, _, _)
\* getHistoricalData(countryCode, category) over the snapshots list.
getHistoricalData(list, countryCode, category) ==
    IF list = <<>> THEN Returned(<<>>)
    ELSE LET first == RecordsOf(Head(list), countryCode, category)
             rest  == getHistoricalData(Tail(list), countryCode, category)
         IN  IF first.threw \/ rest.threw THEN Thrown
             ELSE Returned(first.value \o rest.value)

CategoryFilters == {<<>>} \cup {<<c>> : c \in Categories}

GetHistoricalData(countryCode, category) ==
    /\ ev' = [op |-> "getHistoricalData", countryCode |-> countryCode,
              category |-> category,
              result |-> getHistoricalData(weeklyData, countryCode, category)]
    /\ UNCHANGED <<now, sideVars, weekVars, loadVars, cacheVars>>

----------------------------------------------------------------------------
(* The snapshot loader and the aggregator together.                        *)

Init ==
    /\ now = LoadDate
    /\ wk = <<>>
    /\ files = <<>>
    /\ weeklyData = <<>>
    /\ lw = [t \in Tasks |-> IdleLoad]
    /\ cache = <<>>
    /\ countries = <<>>
    /\ currentData = <<>>
    /\ cw = <<>>
    /\ hist = <<>>
    /\ arg = <<>>
    /\ sv = <<>>
    /\ tab = <<>>
    /\ app = <<>>
    /\ ev = NoEvent

Next ==
    \/ \E t \in Tasks, maxWeeks \in MaxWeeksArgs : LoadWeeklyData(t, maxWeeks)
    \/ \E t \in Tasks, resp \in IndexResponses : IndexResponse(t, resp)
    \/ \E t \in Tasks, resp \in AnyFileResponse : FileResponse(t, resp)

Spec == Init /\ [][Next]_vars

\* The aggregator queried while one loader runs.
AggNext ==
    \/ \E maxWeeks \in MaxWeeksArgs : LoadWeeklyData("t1", maxWeeks)
    \/ \E resp \in IndexResponses : IndexResponse("t1", resp)
    \/ \E resp \in AnyFileResponse : FileResponse("t1", resp)
    \/ \E countryCode \in CountryCodes, category \in CategoryFilters :
           GetHistoricalData(countryCode, category)

SpecAgg == Init /\ [][AggNext]_vars

----------------------------------------------------------------------------
(* The URL-keyed cache and initialize.                                     *)

\* The two directory documents, named for their URLs
\* `${baseUrl}/data/data-country-name-en.json` and `${baseUrl}/data/data-ptime-en.json`.
URLs == {"countries", "current"}

CharsIndia == <<"I", "n", "d", "i", "a">>
CharsBharat == <<"B", "h", "a", "r", "a", "t">>
CharsNotFound == <<"N", "o", "t", " ", "F", "o", "u", "n", "d">>

CountriesA == JObj(<<Entry("country-name", JObj(<<Entry("IN", JStr(CharsIndia))>>))>>)
CountriesB == JObj(<<Entry("country-name", JObj(<<Entry("IN", JStr(CharsBharat))>>))>>)

\* What the server holds under each URL; the upstream job rewrites both daily.
DocsOf(url) == IF url = "countries" THEN {CountriesA, CountriesB} ELSE {Body1, Body2}

\* A non-success answer whose body is JSON all the same.
ErrorDoc == JObj(<<Entry("message", JStr(CharsNotFound))>>)
NotOkJson == [kind |-> "response", ok |-> FALSE, body |-> <<ErrorDoc>>]

DirectoryResponses(url) == {Throw, NotOkJson, Malformed} \cup {Ok(d) : d \in DocsOf(url)}

AnyDirectoryResponse == UNION {DirectoryResponses(url) : url \in URLs}

EmptyCache == [url \in URLs |-> <<>>]

\* One fetchWithCache call: awaiting its fetch, returned (data = <<v>>) or thrown.
Pending == [st |-> "pending", data |-> <<>>]
Done(v) == [st |-> "done", data |-> <<v>>]
Failed == [st |-> "failed", data |-> <<>>]

\* fetchWithCache up to its first await: a cached URL returns at once, any other
\* issues its fetch.
StartFetch(map, url) == IF map[url] # <<>> THEN Done(map[url][1]) ELSE Pending

CachesAnyBody(resp) == resp.kind = "response" /\ resp.body # <<>>

\* if (!response.ok) throw ...; const data = await response.json();
Fetched(resp) == resp.kind = "response" /\ resp.ok /\ resp.body # <<>>

\* fetchWithCache from the answer to its fetch on: the call's end and the cache.
EndFetch(resp) == IF Fetched(resp) THEN Done(resp.body[1]) ELSE Failed

CacheAfter(map, url, resp) ==
    IF Fetched(resp) THEN [map EXCEPT ![url] = <<resp.body[1]>>] ELSE map

\* No initialize call is running in the task.
NoCall == [st |-> "none", data |-> <<>>]
IdleInit == [pc |-> "idle", slot |-> [url \in URLs |-> NoCall]]

\* await Promise.all([...]): pending while neither call has thrown and one is
\* still awaited; rejected as soon as one throws; fulfilled when both returned.
Join(slot) ==
    IF \E url \in URLs : slot[url].st = "failed" THEN "rejected"
    ELSE IF \E url \in URLs : slot[url].st = "pending" THEN "pending"
    ELSE "fulfilled"

AssignsWhatReturned(slot, url, old) ==
    IF slot[url].st = "done" THEN slot[url].data ELSE old

\* this.countries = countriesData; this.currentData = currentData;
\* reached only when the join is fulfilled.
Assigned(slot, url, old) == IF Join(slot) = "fulfilled" THEN slot[url].data ELSE old

\* The call counted in the history: what successful calls have returned for url
\* since the last clearCache.
Noted(h, slot) ==
    [h EXCEPT !.okSince = [url \in URLs |->
        IF slot[url].st = "done" THEN @[url] \cup {slot[url].data[1]} ELSE @[url]]]

\* initialize while its join is undecided: once it is decided the fields are
\* assigned or the call throws; a fetch still awaited then goes on by itself.
Settle(t, slot, event) ==
    /\ countries' = Assigned(slot, "countries", countries)
    /\ currentData' = Assigned(slot, "current", currentData)
    /\ cw' = [cw EXCEPT ![t] =
                 IF \E url \in URLs : slot[url].st = "pending"
                 THEN [pc |-> IF Join(slot) = "pending" THEN "initialize" ELSE "rejected",
                       slot |-> slot]
                 ELSE IdleInit]
    /\ ev' = [event EXCEPT !.join = Join(slot), !.slot = slot]

\* initialize() up to its first await: both fetchWithCache calls are made.
Initialize(t) ==
    /\ cw[t].pc = "idle"
    /\ hist' = Noted(hist, [url \in URLs |-> StartFetch(cache, url)])
    /\ Settle(t, [url \in URLs |-> StartFetch(cache, url)],
              [op |-> "initialize", task |-> t, prior |-> hist.okSince,
               join |-> "", slot |-> <<>>])
    /\ UNCHANGED <<now, sideVars, weekVars, loadVars, cache>>

\* The answer to a fetch that fetchWithCache(url) awaits arrives.
DirectoryResponse(t, url, resp) ==
    /\ cw[t].pc \in {"initialize", "rejected"}
    /\ cw[t].slot[url].st = "pending"
    /\ resp \in DirectoryResponses(url)
    /\ cache' = CacheAfter(cache, url, resp)
    /\ hist' = [okSince |-> [hist.okSince EXCEPT ![url] =
                                IF EndFetch(resp).st = "done"
                                THEN @ \cup {EndFetch(resp).data[1]} ELSE @],
                served  |-> [hist.served EXCEPT ![url] =
                                IF resp.kind = "response" /\ resp.ok /\ resp.body # <<>>
                                THEN @ \cup {resp.body[1]} ELSE @]]
    /\ IF cw[t].pc = "initialize"
       THEN Settle(t, [cw[t].slot EXCEPT ![url] = EndFetch(resp)],
                   [op |-> "response", task |-> t, url |-> url, resp |-> resp,
                    prior |-> hist.okSince, join |-> "", slot |-> <<>>])
       ELSE /\ cw' = [cw EXCEPT ![t] = IdleInit]
            /\ ev' = [op |-> "response", task |-> t, url |-> url, resp |-> resp,
                      prior |-> hist.okSince, join |-> "orphan",
                      slot |-> [cw[t].slot EXCEPT ![url] = EndFetch(resp)]]
            /\ UNCHANGED <<countries, currentData>>
    /\ UNCHANGED <<now, sideVars, weekVars, loadVars>>

\* clearCache()
ClearCache ==
    /\ cache' = EmptyCache
    /\ hist' = [hist EXCEPT !.okSince = [url \in URLs |-> {}]]
    /\ ev' = [op |-> "clearCache"]
    /\ UNCHANGED <<now, sideVars, weekVars, loadVars, countries, currentData, cw>>

CacheInit ==
    /\ now = LoadDate
    /\ wk = <<>>
    /\ files = <<>>
    /\ weeklyData = <<>>
    /\ lw = [t \in Tasks |-> IdleLoad]
    /\ cache = EmptyCache
    /\ countries = <<>>
    /\ currentData = <<>>
    /\ cw = [t \in Tasks |-> IdleInit]
    /\ hist = [okSince |-> [url \in URLs |-> {}], served |-> [url \in URLs |-> {}]]
    /\ arg = <<>>
    /\ sv = <<>>
    /\ tab = <<>>
    /\ app = <<>>
    /\ ev = NoEvent

CacheNext ==
    \/ \E t \in Tasks : Initialize(t)
    \/ \E t \in Tasks, url \in URLs, resp \in AnyDirectoryResponse :
           DirectoryResponse(t, url, resp)
    \/ ClearCache

SpecCache == CacheInit /\ [][CacheNext]_vars

----------------------------------------------------------------------------
(* The time-value extractor (ChartService and SimpleChartService hold the  *)
(* same function).  A JavaScript number is Float(n, f): the integer n plus *)
(* the decimal fraction whose digits are f (no trailing zero).             *)

Float(n, f) == [n |-> n, f |-> f]

\* typeof data
TypeOf(data) ==
    CASE data.t = "str" -> "string"
      [] data.t = "num" -> "number"
      [] data.t = "bool" -> "boolean"
      [] data.t = "undefined" -> "undefined"
      [] OTHER -> "object"

\* The index of the first decimal digit of s (0: s has none).
FirstDigit(s) ==
    IF \E i \in 1..Len(s) : IsDigit(s[i])
    THEN CHOOSE i \in 1..Len(s) :
             IsDigit(s[i]) /\ \A k \in 1..(i - 1) : ~IsDigit(s[k])
    ELSE 0

\* \d+ from index i on, greedy: the index of the last digit of the run.
RunEnd(s, i) ==
    CHOOSE j \in i..Len(s) :
        /\ \A k \in i..j : IsDigit(s[k])
        /\ j = Len(s) \/ ~IsDigit(s[j + 1])

\* (?:\.\d+)? after a run that ends at index j.
HasFraction(s, j) == j + 2 <= Len(s) /\ s[j + 1] = "." /\ IsDigit(s[j + 2])

RECURSIVE StripZeros(_)
StripZeros(f) ==
    IF f # <<>> /\ f[Len(f)] = "0" THEN StripZeros(SubSeq(f, 1, Len(f) - 1)) ELSE f

\* parseFloat of the digits int, a point and the digits frac.
parseFloat(int, frac) == Float(parseInt(int), StripZeros(frac))

\* parseFloat(match[1]) for the match that starts at index i and whose integer
\* digits end at index j.
MatchedNumber(s, i, j) ==
    IF HasFraction(s, j)
    THEN parseFloat(SubSeq(s, i, j), SubSeq(s, j + 2, RunEnd(s, j + 2)))
    ELSE parseFloat(SubSeq(s, i, j), <<>>)

\* data.match(/(\d+(?:\.\d+)?)/) and the conditional on it: <<>> is null.
NumberIn(s, i) == IF i = 0 THEN <<>> ELSE <<MatchedNumber(s, i, RunEnd(s, i))>>

timeKeys == <<"months", "days", "weeks", "time", "duration">>

IsObject(data) == TypeOf(data) = "object"

\* typeof data === 'object' && data !== null
IsObjectNotNull(data) == TypeOf(data) = "object" /\ data # JNull

RECURSIVE extractProcessingTime(_), ProbeFirstNumber(_, _), Probe(_, _)

\* A loop that goes on to the next key when a present key gives null.
ProbeFirstNumber(data, keys) ==
    IF keys = <<>> THEN Returned(<<>>)
    ELSE IF Nullish(data) THEN Thrown
    ELSE IF Get(data, Head(keys)) # JUndefined
              /\ extractProcessingTime(Get(data, Head(keys))) # Returned(<<>>)
    THEN extractProcessingTime(Get(data, Head(keys)))
    ELSE ProbeFirstNumber(data, Tail(keys))

\* for (const key of timeKeys) { if (data[key] !== undefined) return ... }
\* return null;   (data[key] on null raises a TypeError)
Probe(data, keys) ==
    IF keys = <<>> THEN Returned(<<>>)
    ELSE IF Nullish(data) THEN Thrown
    ELSE IF Get(data, Head(keys)) # JUndefined
    THEN extractProcessingTime(Get(data, Head(keys)))
    ELSE Probe(data, Tail(keys))

extractProcessingTime(data) ==
    IF TypeOf(data) = "string" THEN Returned(NumberIn(data.s, FirstDigit(data.s)))
    ELSE IF TypeOf(data) = "number" THEN Returned(<<Float(data.n, <<>>)>>)
    ELSE IF IsObjectNotNull(data) THEN Probe(data, timeKeys)
    ELSE Returned(<<>>)

Chars1Point50 == <<"~", "1", ".", "5", "0", " ", "m", "o">>
CharsNone == <<"n", "/", "a">>
Chars7Point == <<"7", ".", "x", "9">>

\* JSON values without members, and the few of them that two-entry objects hold.
Leaves ==
    {JNull, JBool(TRUE), JBool(FALSE), JNum(0), JNum(7), JNum(-2), JStr(<<>>),
     JStr(Chars12Days), JStr(Chars1Point50), JStr(CharsNone), JStr(Chars7Point)}

SmallLeaves == {JNull, JNum(7), JStr(Chars12Days), JStr(CharsNone)}

Keys == {timeKeys[i] : i \in DOMAIN timeKeys} \cup {"other"}

RECURSIVE Values(_)
\* The JSON values nested to depth d at most.
Values(d) ==
    IF d = 0 THEN Leaves
    ELSE Values(d - 1)
         \cup {JArr(<<v>>) : v \in Values(d - 1)}
         \cup {JObj(<<Entry(k, v)>>) : k \in Keys, v \in Values(d - 1)}
         \cup {JObj(<<Entry(k[1], v[1]), Entry(k[2], v[2])>>) :
                  k \in {p \in Keys \X Keys : p[1] # p[2]},
                  v \in SmallLeaves \X SmallLeaves}

ExtractInit ==
    /\ now = LoadDate
    /\ wk = <<>>
    /\ files = <<>>
    /\ weeklyData = <<>>
    /\ lw = <<>>
    /\ cache = <<>>
    /\ countries = <<>>
    /\ currentData = <<>>
    /\ cw = <<>>
    /\ hist = <<>>
    /\ arg \in Values(MaxDepth)
    /\ sv = <<>>
    /\ tab = <<>>
    /\ app = <<>>
    /\ ev = NoEvent

ExtractProcessingTime ==
    /\ ev' = [op |-> "extractProcessingTime", result |-> extractProcessingTime(arg)]
    /\ UNCHANGED <<now, weekVars, loadVars, cacheVars, sideVars>>

ExtractNext == ExtractProcessingTime

SpecExtract == ExtractInit /\ [][ExtractNext]_vars

----------------------------------------------------------------------------
(* ChartService.prepareChartData.  chartData is the sequence of its         *)
(* entries in insertion order, as Object.keys enumerates them; a point's y  *)
(* is <<>> for null and <<number>> otherwise.                               *)

Point(entry, processingTime) ==
    [x |-> entry.date, y |-> processingTime, week |-> entry.week,
     rawData |-> entry.data]

\* if (!chartData[category]) chartData[category] = [];
\* chartData[category].push(point);
Push(chartData, category, point) ==
    IF \E i \in DOMAIN chartData : chartData[i].k = category
    THEN [i \in DOMAIN chartData |->
             IF chartData[i].k = category
             THEN Entry(category, Append(chartData[i].v, point))
             ELSE chartData[i]]
    ELSE Append(chartData, Entry(category, <<point>>))

KeepsAnyValue(processingTime) == TRUE

\* if (processingTime !== null)
KeepsValue(processingTime) == processingTime # <<>>

\* The body of the forEach callback, given what the extractor returned.
AddPoint(chartData, entry, processingTime) ==
    IF KeepsValue(processingTime)
    THEN Push(chartData, entry.category, Point(entry, processingTime))
    ELSE chartData

RECURSIVE CollectPoints(_, _)
\* historicalData.forEach(entry => ...), from the chartData collected so far.
CollectPoints(historicalData, chartData) ==
    IF historicalData = <<>> THEN chartData
    ELSE CollectPoints(Tail(historicalData),
                       AddPoint(chartData, Head(historicalData),
                                extractProcessingTime(Head(historicalData).data).value))

RECURSIVE InsertByX(_, _)
InsertByX(p, s) ==
    IF s = <<>> THEN <<p>>
    ELSE IF p.x - Head(s).x < 0 THEN <<p>> \o s
    ELSE <<Head(s)>> \o InsertByX(p, Tail(s))

RECURSIVE SortByXFrom(_, _)
SortByXFrom(s, acc) ==
    IF s = <<>> THEN acc ELSE SortByXFrom(Tail(s), InsertByX(Head(s), acc))

NoSortByX(s) == s

\* chartData[category].sort((a, b) => a.x - b.x): a stable sort.
SortByX(s) == SortByXFrom(s, <<>>)

SortEach(chartData) ==
    [i \in DOMAIN chartData |-> Entry(chartData[i].k, SortByX(chartData[i].v))]

prepareChartData(historicalData) == SortEach(CollectPoints(historicalData, <<>>))

\* The values the historical records of the lists carry.
RecordValues == {JStr(Chars12Days), JNum(0), JStr(CharsNone)}

\* A record as getHistoricalData makes it of the snapshot named file.
RecordOf(file, category, data) ==
    HistoricalRecord(Snapshot(file, JNull), category, "IN", data)

Records == {RecordOf(f, c, d) : f \in {F1, F2}, c \in Categories, d \in RecordValues}

RECURSIVE ListsOf(_, _)
\* The sequences of at most n elements of S.
ListsOf(S, n) ==
    IF n = 0 THEN {<<>>}
    ELSE ListsOf(S, n - 1)
         \cup {Append(l, x) : l \in {m \in ListsOf(S, n - 1) : Len(m) = n - 1}, x \in S}

ChartInit ==
    /\ now = LoadDate
    /\ wk = <<>>
    /\ files = <<>>
    /\ weeklyData = <<>>
    /\ lw = <<>>
    /\ cache = <<>>
    /\ countries = <<>>
    /\ currentData = <<>>
    /\ cw = <<>>
    /\ hist = <<>>
    /\ arg \in ListsOf(Records, MaxRecords)
    /\ sv = <<>>
    /\ tab = <<>>
    /\ app = <<>>
    /\ ev = NoEvent

\* As PrepareChartData, with the records handed in put newest first where they
\* stand.
PrepareChartDataReversingRecords ==
    /\ ev' = [op |-> "prepareChartData", result |-> prepareChartData(arg)]
    /\ arg' = Reverse(arg)
    /\ UNCHANGED <<now, weekVars, loadVars, cacheVars, sv, tab, app>>

PrepareChartData ==
    /\ ev' = [op |-> "prepareChartData", result |-> prepareChartData(arg)]
    /\ UNCHANGED <<now, weekVars, loadVars, cacheVars, sideVars>>

ChartNext == PrepareChartData

SpecChart == ChartInit /\ [][ChartNext]_vars

----------------------------------------------------------------------------
(* ChartService.calculateTrend.  The arithmetic is exact: a quotient is    *)
(* Fin(p, q), the rational p / q with q > 0, or what IEEE division by zero  *)
(* gives; the rounded change is Hundredths(h), the number h / 100.          *)

Fin(p, q) == [kind |-> "finite", p |-> p, q |-> q]
Hundredths(h) == [kind |-> "finite", p |-> h, q |-> 100]
PosInfinity == [kind |-> "Infinity"]
NegInfinity == [kind |-> "-Infinity"]
NaN == [kind |-> "NaN"]

\* p / q in floating point, for integers p and q.
Divide(p, q) ==
    IF q > 0 THEN Fin(p, q)
    ELSE IF q < 0 THEN Fin(-p, -q)
    ELSE IF p > 0 THEN PosInfinity
    ELSE IF p < 0 THEN NegInfinity
    ELSE NaN

\* x > n and x < n for an integer n: false on NaN.
GreaterThan(x, n) ==
    IF x.kind = "finite" THEN x.p > n * x.q ELSE x.kind = "Infinity"

LessThan(x, n) ==
    IF x.kind = "finite" THEN x.p < n * x.q ELSE x.kind = "-Infinity"

floor2(x) == IF x.kind = "finite" THEN Hundredths((100 * x.p) \div x.q) ELSE x

\* Math.round(x * 100) / 100: halves go up, and a non-finite x stays what it is.
round2(x) ==
    IF x.kind = "finite" THEN Hundredths((200 * x.p + x.q) \div (2 * x.q)) ELSE x

\* Array.prototype.slice(start, end).
RelativeIndex(len, k) == IF k < 0 THEN Max(len + k, 0) ELSE Min(k, len)
slice2(a, start, end) ==
    SubSeq(a, RelativeIndex(Len(a), start) + 1, RelativeIndex(Len(a), end))

RECURSIVE SumY(_)
\* reduce((sum, item) => sum + item.y, 0)
SumY(points) == IF points = <<>> THEN 0 ELSE Head(points).y + SumY(Tail(points))

InsufficientData == [trend |-> "insufficient-data", change |-> Hundredths(0)]

Classify(change) ==
    IF GreaterThan(change, 5) THEN "increasing"
    ELSE IF LessThan(change, -5) THEN "decreasing"
    ELSE "stable"

\* From `const change` on.
TrendOfChange(change) == [trend |-> Classify(change), change |-> round2(change)]

\* ((recentAvg - olderAvg) / olderAvg) * 100, the averages being sums over lengths.
PercentChange(recentSum, recentLen, olderSum, olderLen) ==
    Divide(100 * (recentSum * olderLen - olderSum * recentLen), olderSum * recentLen)

TrendOfWindows(recent, older) ==
    IF Len(recent) = 0 \/ Len(older) = 0 THEN InsufficientData
    ELSE TrendOfChange(PercentChange(SumY(recent), Len(recent), SumY(older), Len(older)))

calculateTrend(data) ==
    IF Len(data) < 2 THEN InsufficientData
    ELSE TrendOfWindows(slice(data, -4), slice2(data, -8, -4))

\* The y of the points of the series given to calculateTrend.
YValues == {-10, 0, 20}

SeriesPoints == {[y |-> v] : v \in YValues}

TrendInit ==
    /\ now = LoadDate
    /\ wk = <<>>
    /\ files = <<>>
    /\ weeklyData = <<>>
    /\ lw = <<>>
    /\ cache = <<>>
    /\ countries = <<>>
    /\ currentData = <<>>
    /\ cw = <<>>
    /\ hist = <<>>
    /\ arg \in ListsOf(SeriesPoints, MaxPoints)
    /\ sv = <<>>
    /\ tab = <<>>
    /\ app = <<>>
    /\ ev = NoEvent

CalculateTrend ==
    /\ ev' = [op |-> "calculateTrend", result |-> calculateTrend(arg)]
    /\ UNCHANGED <<now, weekVars, loadVars, cacheVars, sideVars>>

TrendNext == CalculateTrend

SpecTrend == TrendInit /\ [][TrendNext]_vars

----------------------------------------------------------------------------
(* The last-updated line: DataService.getLastUpdated shown by              *)
(* IRCCApp.displayLastUpdated, and the loop of the page's earlier script.  *)
(* What is shown is <<>> when the line is not written.                     *)

\* x.lastupdated: a TypeError on null and undefined.
LastUpdatedOf(category) ==
    IF Nullish(category) THEN Thrown ELSE Returned(Get(category, "lastupdated"))

RECURSIVE FirstLastUpdated(_)
\* for (const category of Object.values(this.currentData)) { ... } return null;
FirstLastUpdated(entries) ==
    IF entries = <<>> THEN Returned(<<>>)
    ELSE IF LastUpdatedOf(Head(entries).v).threw THEN Thrown
    ELSE IF Truthy(LastUpdatedOf(Head(entries).v).value)
    THEN Returned(<<LastUpdatedOf(Head(entries).v).value>>)
    ELSE FirstLastUpdated(Tail(entries))

\* Object.values of a parsed JSON document: only an object has entries here.
EntriesOf(doc) == IF doc.t = "obj" THEN doc.e ELSE <<>>

getLastUpdated(data) ==
    IF data = <<>> THEN Returned(<<>>) ELSE FirstLastUpdated(EntriesOf(data[1]))

\* if (lastUpdated) lastUpdatedDiv.innerHTML = ...
Shown(lastUpdated) ==
    IF lastUpdated.threw THEN Thrown
    ELSE IF lastUpdated.value # <<>> /\ Truthy(lastUpdated.value[1])
    THEN lastUpdated
    ELSE Returned(<<>>)

displayLastUpdated(data) == Shown(getLastUpdated(data))

\* extractLastUpdated of the earlier script: hasOwnProperty on null raises too.
extractLastUpdated(data) ==
    IF Nullish(data) THEN Thrown
    ELSE IF HasKey(data, "lastupdated") THEN Returned(<<Get(data, "lastupdated")>>)
    ELSE Returned(<<>>)

RECURSIVE LatestLastUpdated(_, _)
\* Object.values(timesData).forEach(category => { ... lastUpdated = updated; })
LatestLastUpdated(entries, lastUpdated) ==
    IF entries = <<>> THEN Returned(lastUpdated)
    ELSE IF extractLastUpdated(Head(entries).v).threw THEN Thrown
    ELSE IF Shown(extractLastUpdated(Head(entries).v)).value # <<>>
    THEN LatestLastUpdated(Tail(entries), extractLastUpdated(Head(entries).v).value)
    ELSE LatestLastUpdated(Tail(entries), lastUpdated)

scriptLastUpdated(timesData) == Shown(LatestLastUpdated(EntriesOf(timesData), <<>>))

CharsUpdatedLater == <<"2", "0", "2", "4", "-", "0", "1", "-", "1", "6">>

BlockNames == <<"visitor", "study", "work", "supervisa", "citizenship">>

\* A category block: with no lastupdated, an empty one, or one of two dates.
Blocks ==
    {JObj(<<Entry("IN", JStr(Chars12Days))>>)}
    \cup {JObj(<<Entry("lastupdated", JStr(u)), Entry("IN", JStr(Chars12Days))>>) :
             u \in {<<>>, CharsUpdated, CharsUpdatedLater}}

\* The current processing-times documents of at most n category blocks.
CurrentDocs(n) ==
    {JObj([i \in 1..Len(l) |-> Entry(BlockNames[i], l[i])]) : l \in ListsOf(Blocks, n)}

UpdatedInit ==
    /\ now = LoadDate
    /\ wk = <<>>
    /\ files = <<>>
    /\ weeklyData = <<>>
    /\ lw = <<>>
    /\ cache = <<>>
    /\ countries = <<>>
    /\ currentData \in {<<>>} \cup {<<d>> : d \in CurrentDocs(MaxBlocks)}
    /\ cw = <<>>
    /\ hist = <<>>
    /\ arg = <<>>
    /\ sv = <<>>
    /\ tab = <<>>
    /\ app = <<>>
    /\ ev = NoEvent

DisplayLastUpdated ==
    /\ ev' = [op |-> "displayLastUpdated", shown |-> displayLastUpdated(currentData)]
    /\ UNCHANGED <<now, weekVars, loadVars, cacheVars, sideVars>>

\* The earlier script, on the document it fetched itself.
ScriptLastUpdated ==
    /\ currentData # <<>>
    /\ ev' = [op |-> "scriptLastUpdated", shown |-> scriptLastUpdated(currentData[1])]
    /\ UNCHANGED <<now, weekVars, loadVars, cacheVars, sideVars>>

UpdatedNext == DisplayLastUpdated \/ ScriptLastUpdated

SpecUpdated == UpdatedInit /\ [][UpdatedNext]_vars

----------------------------------------------------------------------------
(* findMostRecentServicesFile of servicesService.js: the index first, then  *)
(* an existence check of the files of the last weeks, one at a time.        *)

CharsServices ==
    <<"-", "i", "n", "-", "c", "a", "n", "a", "d", "a", "-",
      "s", "e", "r", "v", "i", "c", "e", "s", ".", "j", "s", "o", "n">>

\* `${yearToTry}-W${weekToTry.toString().padStart(2, '0')}-in-canada-services.json`
ServicesFileName(year, week) ==
    toString(year) \o <<"-", "W">> \o padStart2(toString(week)) \o CharsServices

\* String.prototype.includes
includes(file, part) ==
    \E i \in 1..(Len(file) - Len(part) + 1) : SubSeq(file, i, i + Len(part) - 1) = part

\* The characters of the filenames, by ascending UTF-16 code unit.
CodeUnitOrder ==
    <<"-", ".", "0", "1", "2", "3", "4", "5", "6", "7", "8", "9", "W",
      "a", "c", "d", "e", "i", "j", "n", "o", "r", "s", "v">>

CodeRank(c) == CHOOSE k \in DOMAIN CodeUnitOrder : CodeUnitOrder[k] = c

RECURSIVE Precedes(_, _)
\* a < b for strings.
Precedes(a, b) ==
    IF b = <<>> THEN FALSE
    ELSE IF a = <<>> THEN TRUE
    ELSE IF CodeRank(Head(a)) # CodeRank(Head(b))
    THEN CodeRank(Head(a)) < CodeRank(Head(b))
    ELSE Precedes(Tail(a), Tail(b))

RECURSIVE InsertName(_, _)
InsertName(x, s) ==
    IF s = <<>> THEN <<x>>
    ELSE IF Precedes(x, Head(s)) THEN <<x>> \o s
    ELSE <<Head(s)>> \o InsertName(x, Tail(s))

RECURSIVE SortNamesFrom(_, _)
SortNamesFrom(s, acc) ==
    IF s = <<>> THEN acc ELSE SortNamesFrom(Tail(s), InsertName(Head(s), acc))

\* weeklyFiles.filter(file => file.includes('-in-canada-services.json'))
\*            .sort().reverse()
servicesFiles(weeklyFiles) ==
    Reverse(SortNamesFrom(SelectSeq(weeklyFiles, LAMBDA file : includes(file, CharsServices)),
                          <<>>))

\* The try block on the index: the newest services file it lists (<<>>: none,
\* the request failed, or an exception was caught).
FromIndex(resp) ==
    IF resp.kind = "response" /\ resp.ok /\ resp.body # <<>>
    THEN IF resp.body[1].t = "arr" THEN servicesFiles(resp.body[1].a) ELSE <<>>
    ELSE <<>>

\* weekToTry and yearToTry of the i-th turn of the loop.
weekToTry(currentWeek, i) ==
    IF currentWeek - i <= 0 THEN 52 + (currentWeek - i) ELSE currentWeek - i

yearToTry(currentYear, currentWeek, i) ==
    IF currentWeek - i <= 0 THEN currentYear - 1 ELSE currentYear

fileName(currentDate, i) ==
    ServicesFileName(yearToTry(getFullYear(currentDate), getWeekNumber(currentDate), i),
                     weekToTry(getWeekNumber(currentDate), i))

ContinuesPastFour(i) == i <= 5

\* for (let i = 0; i <= 4; i++)
Continues(i) == i <= 4

S1 == ServicesFileName(2024, 1)
S2 == ServicesFileName(2024, 2)

\* weekly/index.json as the services page may find it.
ServicesIndexDocs ==
    {JArr(<<F1, S2, S1, F2>>), JArr(<<S1, F1>>), JArr(<<F1, F2>>), JObj(<<>>)}

ServicesIndexResponses == {Throw, NotOk, Malformed} \cup {Ok(d) : d \in ServicesIndexDocs}

\* The answer to a HEAD request for a file that exists.
Found == [kind |-> "response", ok |-> TRUE, body |-> <<>>]

ProbeResponses == {Throw, NotOk, Found}

IdleSearch == [pc |-> "idle", i |-> 0, probed |-> <<>>]

Probed(file, resp) == [file |-> file, ok |-> resp.kind = "response" /\ resp.ok]

SearchReturn(fallback, probed, result) ==
    [op |-> "findMostRecentServicesFile", fallback |-> fallback, probed |-> probed,
     result |-> result]

\* findMostRecentServicesFile() up to its first await.
FindMostRecentServicesFile ==
    /\ sv.pc = "idle"
    /\ sv' = [IdleSearch EXCEPT !.pc = "index"]
    /\ ev' = NoEvent
    /\ UNCHANGED <<now, weekVars, loadVars, cacheVars, arg, tab, app>>

\* The index request is answered: the newest listed file is returned, or the
\* first existence check is issued.
ServicesIndexResponse(resp) ==
    /\ sv.pc = "index"
    /\ resp \in ServicesIndexResponses
    /\ IF FromIndex(resp) # <<>>
       THEN /\ sv' = IdleSearch
            /\ ev' = SearchReturn(FALSE, <<>>, Returned(Head(FromIndex(resp))))
       ELSE /\ sv' = [IdleSearch EXCEPT !.pc = "probe"]
            /\ ev' = NoEvent
    /\ UNCHANGED <<now, weekVars, loadVars, cacheVars, arg, tab, app>>

\* The loop from the answer to an existence check on, the checks so far included.
AfterProbe(i, probed) ==
    IF probed[Len(probed)].ok
    THEN /\ sv' = IdleSearch
         /\ ev' = SearchReturn(TRUE, probed, Returned(probed[Len(probed)].file))
    ELSE IF Continues(i + 1)
    THEN /\ sv' = [pc |-> "probe", i |-> i + 1, probed |-> probed]
         /\ ev' = NoEvent
    ELSE /\ sv' = IdleSearch
         /\ ev' = SearchReturn(TRUE, probed, Thrown)

\* An existence check is answered.
ProbeResponse(resp) ==
    /\ sv.pc = "probe"
    /\ resp \in ProbeResponses
    /\ AfterProbe(sv.i, Append(sv.probed, Probed(fileName(now, sv.i), resp)))
    /\ UNCHANGED <<now, weekVars, loadVars, cacheVars, arg, tab, app>>

ServicesInit ==
    /\ now \in Dates
    /\ wk = <<>>
    /\ files = <<>>
    /\ weeklyData = <<>>
    /\ lw = <<>>
    /\ cache = <<>>
    /\ countries = <<>>
    /\ currentData = <<>>
    /\ cw = <<>>
    /\ hist = <<>>
    /\ arg = <<>>
    /\ sv = IdleSearch
    /\ tab = <<>>
    /\ app = <<>>
    /\ ev = NoEvent

ServicesNext ==
    \/ FindMostRecentServicesFile
    \/ \E resp \in ServicesIndexResponses : ServicesIndexResponse(resp)
    \/ \E resp \in ProbeResponses : ProbeResponse(resp)

SpecServices == ServicesInit /\ [][ServicesNext]_vars

----------------------------------------------------------------------------
(* loadInCanadaServices of servicesService.js: the file search above, the   *)
(* fetch of the file it found, and the services tab.                        *)

\* The documents a services file may hold.
ServicesDocs ==
    {JObj(<<Entry("default-update", JObj(<<Entry("lastupdated", JStr(CharsUpdated))>>)),
            Entry("citizenship", JObj(<<Entry("grant", JStr(Chars12Days))>>))>>),
     JObj(<<Entry("citizenship", JNull)>>),
     JObj(<<>>),
     JNull,
     JNum(0)}

ServicesFileResponses ==
    {Throw, NotOk, NotOkJson, Malformed} \cup {Ok(d) : d \in ServicesDocs}

\* Object.entries(v) of a null or undefined v throws.
EntriesThrow(v) == Nullish(v)

\* The header, createServiceCategoryDropdown(data) and displayFilteredServices('')
\* run to their end on this document.
Renders(data) ==
    /\ ~Nullish(data)
    /\ (Truthy(data) /\ data.t = "obj") =>
           \A i \in DOMAIN data.e :
               data.e[i].k # "default-update" => ~EntriesThrow(data.e[i].v)

FileLoadedWhateverStatus(resp) == resp.kind = "response" /\ resp.body # <<>>

\* fetch, the test of response.ok and response.json() all pass.
FileLoaded(resp) == resp.kind = "response" /\ resp.ok /\ resp.body # <<>>

IdleTab == [pc |-> "idle", error |-> "hidden", fileName |-> <<>>, search |-> <<>>,
            servicesData |-> <<>>]

\* What findMostRecentServicesFile returns or throws once the index request is
\* answered (<<>>: it goes on to the existence checks).
IndexOutcome(resp) ==
    IF FromIndex(resp) # <<>>
    THEN <<SearchReturn(FALSE, <<>>, Returned(Head(FromIndex(resp))))>>
    ELSE <<>>

\* What it returns or throws once the i-th existence check is answered (<<>>: it
\* goes on to the next check).
ProbeOutcome(i, probed) ==
    IF probed[Len(probed)].ok
    THEN <<SearchReturn(TRUE, probed, Returned(probed[Len(probed)].file))>>
    ELSE IF Continues(i + 1) THEN <<>>
    ELSE <<SearchReturn(TRUE, probed, Thrown)>>

TabReturn(error, search, file) ==
    [op |-> "loadInCanadaServices", error |-> error, search |-> search, file |-> file]

\* loadInCanadaServices() up to the first await of findMostRecentServicesFile().
LoadInCanadaServices ==
    /\ tab.pc = "idle"
    /\ tab' = [tab EXCEPT !.pc = "find", !.error = "hidden",
                          !.fileName = <<>>, !.search = <<>>]
    /\ sv' = [IdleSearch EXCEPT !.pc = "index"]
    /\ ev' = NoEvent
    /\ UNCHANGED <<now, weekVars, loadVars, cacheVars, arg, app>>

\* loadInCanadaServices from the end of findMostRecentServicesFile on: the catch
\* block when it threw, the fetch of the file when it returned.
AfterSearch(outcome) ==
    IF outcome = <<>>
    THEN /\ tab' = tab
         /\ ev' = NoEvent
    ELSE IF outcome[1].result.threw
    THEN /\ tab' = [tab EXCEPT !.pc = "idle", !.error = "shown", !.search = outcome[1]]
         /\ ev' = TabReturn(TRUE, outcome[1], <<>>)
    ELSE /\ tab' = [tab EXCEPT !.pc = "file", !.fileName = outcome[1].result.value,
                               !.search = outcome[1]]
         /\ ev' = NoEvent

\* The index request of the search is answered.
TabIndexResponse(resp) ==
    /\ tab.pc = "find"
    /\ sv.pc = "index"
    /\ resp \in ServicesIndexResponses
    /\ sv' = IF IndexOutcome(resp) = <<>>
             THEN [IdleSearch EXCEPT !.pc = "probe"] ELSE IdleSearch
    /\ AfterSearch(IndexOutcome(resp))
    /\ UNCHANGED <<now, weekVars, loadVars, cacheVars, arg, app>>

TabAfterProbe(i, probed) ==
    /\ sv' = IF ProbeOutcome(i, probed) = <<>>
             THEN [pc |-> "probe", i |-> i + 1, probed |-> probed] ELSE IdleSearch
    /\ AfterSearch(ProbeOutcome(i, probed))

\* An existence check of the search is answered.
TabProbeResponse(resp) ==
    /\ tab.pc = "find"
    /\ sv.pc = "probe"
    /\ resp \in ProbeResponses
    /\ TabAfterProbe(sv.i, Append(sv.probed, Probed(fileName(now, sv.i), resp)))
    /\ UNCHANGED <<now, weekVars, loadVars, cacheVars, arg, app>>

\* The request for the file is answered: the tab is filled, or the catch block
\* shows the error.
ServicesFileResponse(resp) ==
    /\ tab.pc = "file"
    /\ resp \in ServicesFileResponses
    /\ IF FileLoaded(resp)
       THEN /\ tab' = [tab EXCEPT !.pc = "idle", !.servicesData = resp.body,
                           !.error = IF Renders(resp.body[1]) THEN "hidden" ELSE "shown"]
            /\ ev' = TabReturn(~Renders(resp.body[1]), tab.search, <<resp>>)
       ELSE /\ tab' = [tab EXCEPT !.pc = "idle", !.error = "shown"]
            /\ ev' = TabReturn(TRUE, tab.search, <<resp>>)
    /\ UNCHANGED <<now, weekVars, loadVars, cacheVars, arg, sv, app>>

TabInit ==
    /\ now \in Dates
    /\ wk = <<>>
    /\ files = <<>>
    /\ weeklyData = <<>>
    /\ lw = <<>>
    /\ cache = <<>>
    /\ countries = <<>>
    /\ currentData = <<>>
    /\ cw = <<>>
    /\ hist = <<>>
    /\ arg = <<>>
    /\ sv = IdleSearch
    /\ tab = IdleTab
    /\ app = <<>>
    /\ ev = NoEvent

TabNext ==
    \/ LoadInCanadaServices
    \/ \E resp \in ServicesIndexResponses : TabIndexResponse(resp)
    \/ \E resp \in ProbeResponses : TabProbeResponse(resp)
    \/ \E resp \in ServicesFileResponses : ServicesFileResponse(resp)

SpecTab == TabInit /\ [][TabNext]_vars

----------------------------------------------------------------------------
(* getCountryData of the DataService and the table displayCurrentData fills *)
(* from it.                                                                 *)

\* countries[countryCode] of a category block (a thrown TypeError when the block
\* is null).
OfCountry(block, countryCode) ==
    IF Nullish(block) THEN Thrown ELSE Returned(Get(block, countryCode))

RECURSIVE CollectCountry(_, _, _)
\* The forEach over Object.entries(this.currentData), countryData so far in acc.
CollectCountry(entries, countryCode, acc) ==
    IF entries = <<>> THEN Returned(acc)
    ELSE IF OfCountry(Head(entries).v, countryCode).threw THEN Thrown
    ELSE IF Truthy(OfCountry(Head(entries).v, countryCode).value)
    THEN CollectCountry(Tail(entries), countryCode,
                        Append(acc, Entry(Head(entries).k,
                                          OfCountry(Head(entries).v, countryCode).value)))
    ELSE CollectCountry(Tail(entries), countryCode, acc)

\* return hasData ? countryData : null
CountryDataOrNull(collected) ==
    IF collected.threw THEN Thrown
    ELSE IF collected.value = <<>> THEN Returned(<<>>)
    ELSE Returned(<<JObj(collected.value)>>)

getCountryData(data, countryCode) ==
    IF data = <<>> \/ ~Truthy(data[1]) THEN Returned(<<>>)
    ELSE CountryDataOrNull(CollectCountry(EntriesOf(data[1]), countryCode, <<>>))

NoDataRow == [message |-> "No processing time data available for this country"]

\* The rows of the table: one per entry of countryData, the text of the value
\* cell left as the value it is rendered from.
displayCurrentData(countryData) ==
    IF countryData.threw THEN Thrown
    ELSE IF countryData.value = <<>> THEN Returned(<<NoDataRow>>)
    ELSE Returned([i \in DOMAIN countryData.value[1].e |->
                      [category |-> countryData.value[1].e[i].k,
                       data |-> countryData.value[1].e[i].v]])

CellValues == {JStr(Chars12Days), JNum(0), JStr(<<>>)}

\* A category block: its entries for the countries, or null.
CountryBlocks ==
    {JNull, JObj(<<Entry("lastupdated", JStr(CharsUpdated))>>)}
    \cup {JObj(<<Entry("IN", v)>>) : v \in CellValues}
    \cup {JObj(<<Entry("PH", JStr(Chars12Days))>>)}
    \cup {JObj(<<Entry("IN", v), Entry("PH", JStr(Chars12Days))>>) : v \in CellValues}

CountryDocs(n) ==
    {JObj([i \in 1..Len(l) |-> Entry(BlockNames[i], l[i])]) : l \in ListsOf(CountryBlocks, n)}

CountryInit ==
    /\ now = LoadDate
    /\ wk = <<>>
    /\ files = <<>>
    /\ weeklyData = <<>>
    /\ lw = <<>>
    /\ cache = <<>>
    /\ countries = <<>>
    /\ currentData \in {<<>>} \cup {<<d>> : d \in CountryDocs(MaxCategories)}
    /\ cw = <<>>
    /\ hist = <<>>
    /\ arg \in CountryCodes
    /\ sv = <<>>
    /\ tab = <<>>
    /\ app = <<>>
    /\ ev = NoEvent

GetCountryData ==
    /\ ev' = [op |-> "getCountryData", result |-> getCountryData(currentData, arg)]
    /\ UNCHANGED <<now, weekVars, loadVars, cacheVars, sideVars>>

DisplayCurrentData ==
    /\ ev' = [op |-> "displayCurrentData",
              result |-> getCountryData(currentData, arg),
              rows |-> displayCurrentData(getCountryData(currentData, arg))]
    /\ UNCHANGED <<now, weekVars, loadVars, cacheVars, sideVars>>

CountryNext ==
    \/ GetCountryData
    \/ DisplayCurrentData

SpecCountry == CountryInit /\ [][CountryNext]_vars

----------------------------------------------------------------------------
(* IRCCApp: the background load init starts, country changes, refresh       *)
(* clicks, and the chart area.  A continuation of an await runs before any  *)
(* later event or response is handled.                                      *)

\* The content of #chart-container: nothing yet, one of the messages, or the
\* chart of a country.
NoChart == [kind |-> "empty", country |-> <<>>]

\* showLoadingMessage('Loading historical data...')
LoadingMessage == [kind |-> "Loading historical data...", country |-> <<>>]

SelectMessage == [kind |-> "Select a country to view historical data", country |-> <<>>]

NoHistoryMessage(countryCode) ==
    [kind |-> "No historical data available for this country", country |-> <<countryCode>>]

ChartOf(countryCode) == [kind |-> "chart", country |-> <<countryCode>>]

NewApp ==
    [phase |-> "constructed", options |-> {}, currentCountry |-> <<>>,
     chart |-> NoChart, bg |-> "idle", rf |-> "idle", loaded |-> FALSE]

\* The invocations that have emptied this.weeklyData and not yet sorted it.
Writers == {t \in Tasks : lw[t].pc = "file"}

\* What a handler is seen to have read and charted.
AppEvent(op, countryCode, read, historicalData) ==
    [op |-> op, countryCode |-> countryCode, read |-> read, writers |-> Writers,
     historicalData |-> historicalData]

\* displayHistoricalChart, given what getHistoricalData came to: the chart area
\* afterwards.
ChartAreaAfter(chart, historicalData, countryCode) ==
    IF historicalData.threw THEN chart
    ELSE IF Len(historicalData.value) = 0 THEN NoHistoryMessage(countryCode)
    ELSE ChartOf(countryCode)

displayHistoricalChart(chart, list, countryCode) ==
    ChartAreaAfter(chart, getHistoricalData(list, countryCode, <<>>), countryCode)

\* if (this.dataService.weeklyData.length > 0)
ChartsOnChange(list) == Len(list) > 0

\* clearCurrentData()
clearCurrentData(a) == [a EXCEPT !.chart = SelectMessage, !.currentCountry = <<>>]

\* onCountryChange(countryCode): the application afterwards.
onCountryChange(a, list, countryCode) ==
    IF countryCode = "" THEN clearCurrentData(a)
    ELSE [a EXCEPT !.currentCountry = <<countryCode>>,
                   !.chart = IF ChartsOnChange(list)
                             THEN displayHistoricalChart(a.chart, list, countryCode)
                             ELSE a.chart]

CountryChangeEvent(list, countryCode) ==
    IF countryCode # "" /\ ChartsOnChange(list)
    THEN AppEvent("onCountryChange", countryCode, <<list>>,
                  <<getHistoricalData(list, countryCode, <<>>)>>)
    ELSE AppEvent("onCountryChange", countryCode, <<list>>, <<>>)

\* No continuation of an awaited loadWeeklyData is due.
Quiet ==
    /\ ~(app.bg = "loading" /\ lw["t1"].pc = "idle")
    /\ ~(app.rf = "loading" /\ lw["t2"].pc = "idle")

\* The country selectFirstCountry picks: options[1], when setupCountryDropdown
\* has filled the dropdown.
FirstCountries == {<<>>} \cup {<<c>> : c \in CountryCodes}

\* The values of the options of the dropdown, the placeholder's aside.
OptionsWith(first) == IF first = <<>> THEN {} ELSE CountryCodes

\* init() once initialize() has resolved: loadWeeklyDataAsync() up to its await,
\* then selectFirstCountry().
InitApp(first) ==
    /\ app.phase = "constructed"
    /\ first \in FirstCountries
    /\ lw' = [lw EXCEPT !["t1"] = [IdleLoad EXCEPT !.pc = "index",
                                                    !.maxWeeks = DefaultMaxWeeks]]
    /\ app' = IF first = <<>>
              THEN [app EXCEPT !.phase = "running", !.bg = "loading",
                               !.chart = LoadingMessage]
              ELSE onCountryChange([app EXCEPT !.phase = "running", !.bg = "loading",
                                               !.options = OptionsWith(first),
                                               !.chart = LoadingMessage],
                                   weeklyData, first[1])
    /\ ev' = IF first = <<>> THEN NoEvent ELSE CountryChangeEvent(weeklyData, first[1])
    /\ UNCHANGED <<now, weekVars, weeklyData, cacheVars, arg, sv, tab>>

\* The change listener of the country dropdown.
OnCountryChange(countryCode) ==
    /\ app.phase = "running"
    /\ Quiet
    /\ countryCode \in {""} \cup app.options
    /\ app' = onCountryChange(app, weeklyData, countryCode)
    /\ ev' = CountryChangeEvent(weeklyData, countryCode)
    /\ UNCHANGED <<now, weekVars, loadVars, cacheVars, arg, sv, tab>>

\* loadWeeklyDataAsync() after its await: the chart of the selected country.
BackgroundLoaded ==
    /\ app.bg = "loading"
    /\ lw["t1"].pc = "idle"
    /\ app' = [app EXCEPT !.bg = "done", !.loaded = TRUE,
                          !.chart = IF app.currentCountry # <<>>
                                    THEN displayHistoricalChart(app.chart, weeklyData,
                                                                app.currentCountry[1])
                                    ELSE app.chart]
    /\ ev' = IF app.currentCountry # <<>>
             THEN AppEvent("loadWeeklyDataAsync", app.currentCountry[1], <<weeklyData>>,
                           <<getHistoricalData(weeklyData, app.currentCountry[1], <<>>)>>)
             ELSE NoEvent
    /\ UNCHANGED <<now, weekVars, loadVars, cacheVars, arg, sv, tab>>

\* A click on the refresh button: refreshData() up to the await of initialize().
RefreshData ==
    /\ app.phase = "running"
    /\ Quiet
    /\ app.rf = "idle"
    /\ app' = [app EXCEPT !.rf = "initialize"]
    /\ ev' = NoEvent
    /\ UNCHANGED <<now, weekVars, loadVars, cacheVars, arg, sv, tab>>

\* initialize() has settled: loadWeeklyData() is called, or the catch block ends
\* the refresh.
RefreshInitialized(resolved) ==
    /\ app.rf = "initialize"
    /\ Quiet
    /\ IF resolved
       THEN /\ app' = [app EXCEPT !.rf = "loading"]
            /\ lw' = [lw EXCEPT !["t2"] = [IdleLoad EXCEPT !.pc = "index",
                                                            !.maxWeeks = DefaultMaxWeeks]]
       ELSE /\ app' = [app EXCEPT !.rf = "idle"]
            /\ UNCHANGED lw
    /\ ev' = NoEvent
    /\ UNCHANGED <<now, weekVars, weeklyData, cacheVars, arg, sv, tab>>

\* refreshData() after the await of loadWeeklyData(): onCountryChange of the
\* selected country.
RefreshLoaded ==
    /\ app.rf = "loading"
    /\ lw["t2"].pc = "idle"
    /\ app' = IF app.currentCountry # <<>>
              THEN onCountryChange([app EXCEPT !.rf = "idle", !.loaded = TRUE],
                                   weeklyData, app.currentCountry[1])
              ELSE [app EXCEPT !.rf = "idle", !.loaded = TRUE]
    /\ ev' = IF app.currentCountry # <<>>
             THEN [CountryChangeEvent(weeklyData, app.currentCountry[1])
                      EXCEPT !.op = "refreshData"]
             ELSE NoEvent
    /\ UNCHANGED <<now, weekVars, loadVars, cacheVars, arg, sv, tab>>

\* The answers to the index request while the index is published.
PublishedIndex == {Ok(d) : d \in IndexDocs}

AppInit ==
    /\ now = LoadDate
    /\ wk = <<>>
    /\ files = <<>>
    /\ weeklyData = <<>>
    /\ lw = [t \in Tasks |-> IdleLoad]
    /\ cache = <<>>
    /\ countries = <<>>
    /\ currentData = <<>>
    /\ cw = <<>>
    /\ hist = <<>>
    /\ arg = <<>>
    /\ sv = <<>>
    /\ tab = <<>>
    /\ app = NewApp
    /\ ev = NoEvent

AppNext ==
    \/ \E first \in FirstCountries : InitApp(first)
    \/ \E countryCode \in {""} \cup CountryCodes : OnCountryChange(countryCode)
    \/ RefreshData
    \/ \E resolved \in BOOLEAN : RefreshInitialized(resolved)
    \/ \E t \in Tasks, resp \in PublishedIndex : Quiet /\ IndexResponse(t, resp)
    \/ \E t \in Tasks, resp \in AnyFileResponse : Quiet /\ FileResponse(t, resp)
    \/ BackgroundLoaded
    \/ RefreshLoaded

SpecApp == AppInit /\ [][AppNext]_vars

----------------------------------------------------------------------------
(* The aggregation operations on a loaded list: getHistoricalData reads     *)
(* this.weeklyData, prepareChartData the records handed to it.              *)

\* this.weeklyData as finished loads leave it.
LoadedLists ==
    {<<>>,
     <<Snapshot(F1, Body1)>>,
     <<Snapshot(F1, Body1), Snapshot(F2, Body2)>>,
     <<Snapshot(FX, BodyX), Snapshot(F1, Body1), Snapshot(F2, Body2)>>}

ReadInit ==
    /\ now = LoadDate
    /\ wk = <<>>
    /\ files = <<>>
    /\ weeklyData \in LoadedLists
    /\ lw = [t \in Tasks |-> IdleLoad]
    /\ cache = <<>>
    /\ countries = <<>>
    /\ currentData = <<>>
    /\ cw = <<>>
    /\ hist = <<>>
    /\ arg \in ListsOf(Records, MaxPassed)
    /\ sv = <<>>
    /\ tab = <<>>
    /\ app = <<>>
    /\ ev = NoEvent

ReadNext ==
    \/ \E countryCode \in CountryCodes, category \in CategoryFilters :
           GetHistoricalData(countryCode, category)
    \/ PrepareChartData

SpecRead == ReadInit /\ [][ReadNext]_vars

----------------------------------------------------------------------------
(* SimpleChartService.prepareChartData of simpleChart.js, which orders the  *)
(* points of a category by their week label, next to the ChartService's.    *)

\* The characters of the week labels, in the order localeCompare gives them.
LocaleOrder == <<"-", "0", "1", "2", "3", "4", "5", "6", "7", "8", "9", "W">>

LocaleRank(c) == CHOOSE k \in DOMAIN LocaleOrder : LocaleOrder[k] = c

RECURSIVE localeCompare(_, _)
\* a.localeCompare(b): negative, zero or positive.
localeCompare(a, b) ==
    IF a = <<>> /\ b = <<>> THEN 0
    ELSE IF a = <<>> THEN -1
    ELSE IF b = <<>> THEN 1
    ELSE IF LocaleRank(Head(a)) # LocaleRank(Head(b))
    THEN LocaleRank(Head(a)) - LocaleRank(Head(b))
    ELSE localeCompare(Tail(a), Tail(b))

\* { week: entry.week, value: processingTime, rawData: entry.data }
SimplePoint(entry, processingTime) ==
    [week |-> entry.week, value |-> processingTime, rawData |-> entry.data]

SimpleAddPoint(chartData, entry, processingTime) ==
    IF KeepsValue(processingTime)
    THEN Push(chartData, entry.category, SimplePoint(entry, processingTime))
    ELSE chartData

RECURSIVE SimpleCollectPoints(_, _)
\* historicalData.forEach(entry => ...), chartData so far in acc.
SimpleCollectPoints(historicalData, acc) ==
    IF historicalData = <<>> THEN acc
    ELSE SimpleCollectPoints(Tail(historicalData),
                             SimpleAddPoint(acc, Head(historicalData),
                                            extractProcessingTime(Head(historicalData).data).value))

RECURSIVE InsertByWeek(_, _)
InsertByWeek(p, s) ==
    IF s = <<>> THEN <<p>>
    ELSE IF localeCompare(p.week, Head(s).week) < 0 THEN <<p>> \o s
    ELSE <<Head(s)>> \o InsertByWeek(p, Tail(s))

RECURSIVE SortByWeekFrom(_, _)
SortByWeekFrom(s, acc) ==
    IF s = <<>> THEN acc ELSE SortByWeekFrom(Tail(s), InsertByWeek(Head(s), acc))

NoSortByWeek(s) == s

\* chartData[category].sort((a, b) => a.week.localeCompare(b.week)): a stable sort.
SortByWeek(s) == SortByWeekFrom(s, <<>>)

SimpleSortEach(chartData) ==
    [i \in DOMAIN chartData |-> Entry(chartData[i].k, SortByWeek(chartData[i].v))]

simplePrepareChartData(historicalData) ==
    SimpleSortEach(SimpleCollectPoints(historicalData, <<>>))

\* The years and weeks of the snapshots the compared records come from.
ComparedYears == {999, 2023, 2024}

ComparedWeeks == {1, 53, 60}

\* The name of the snapshot of a week, the year written with four digits.
ComparedFileName(year, week) ==
    (IF year < 1000 THEN <<"0">> ELSE <<>>) \o WeekFileName(year, week)

ComparedRecords ==
    {RecordOf(ComparedFileName(y, w), c, d) :
        y \in ComparedYears, w \in ComparedWeeks, c \in Categories,
        d \in {JStr(Chars12Days), JStr(CharsNone)}}

CompareInit ==
    /\ now = LoadDate
    /\ wk = <<>>
    /\ files = <<>>
    /\ weeklyData = <<>>
    /\ lw = <<>>
    /\ cache = <<>>
    /\ countries = <<>>
    /\ currentData = <<>>
    /\ cw = <<>>
    /\ hist = <<>>
    /\ arg \in ListsOf(ComparedRecords, MaxCompared)
    /\ sv = <<>>
    /\ tab = <<>>
    /\ app = <<>>
    /\ ev = NoEvent

\* Both services prepare the same records.
PrepareBoth ==
    /\ ev' = [op |-> "prepareBoth", chart |-> prepareChartData(arg),
              simple |-> simplePrepareChartData(arg)]
    /\ UNCHANGED <<now, weekVars, loadVars, cacheVars, sideVars>>

CompareNext == PrepareBoth

SpecCompare == CompareInit /\ [][CompareNext]_vars

----------------------------------------------------------------------------
(* What the last step is seen to have returned from loadWeeklyData.         *)

Returns ==
    IF ev.op \in {"fetchWeeklyIndex", "loadWeeklyData"} THEN ev.returned ELSE <<>>

ReturnSet == {Returns[k] : k \in DOMAIN Returns}

FileNamesOf(list) == [k \in DOMAIN list |-> list[k].filename]

CountIn(s, x) == Cardinality({k \in DOMAIN s : s[k] = x})

\* The same elements, each as many times, in whatever order.
SameBag(s, u) ==
    /\ Len(s) = Len(u)
    /\ \A k \in DOMAIN s : CountIn(s, s[k]) = CountIn(u, s[k])

\* The last n elements of s (all of s when it has fewer).
LastN(s, n) == SubSeq(s, Len(s) - Min(n, Len(s)) + 1, Len(s))

MatchesPattern(filename) == \E i \in 1..Len(filename) : MatchesAt(filename, i)

\* An answer with a success status and a body that is JSON.
ParsedOk(resp) == resp.kind = "response" /\ resp.ok /\ resp.body # <<>>

\* The keys the extractor is to probe, in the order it is to probe them.
KeyOrder == <<"months", "days", "weeks", "time", "duration">>
ProbedKeys == {KeyOrder[i] : i \in DOMAIN KeyOrder}

\* The records of a list that are to become points of the category's series.
Charted(list, category) ==
    SelectSeq(list, LAMBDA r : r.category = category
                               /\ extractProcessingTime(r.data) # Returned(<<>>))

PointsOf(list) ==
    [k \in DOMAIN list |-> Point(list[k], extractProcessingTime(list[k].data).value)]

\* The sums of the y of the last four points of a series and of the four before.
LastFourSum(series) == SumY(SubSeq(series, Len(series) - 3, Len(series)))
FourBeforeSum(series) == SumY(SubSeq(series, Len(series) - 7, Len(series) - 4))

\* The category blocks of a document that carry a non-empty lastupdated.
Dated(doc) == SelectSeq(EntriesOf(doc), LAMBDA e : Truthy(Get(e.v, "lastupdated")))

\* The file of the week i weeks before the current one, a week number that is not
\* positive being counted from week 52 of the year before.
CandidateOf(date, i) ==
    IF IsoWeek(date) - i <= 0
    THEN ServicesFileName(getFullYear(date) - 1, 52 + IsoWeek(date) - i)
    ELSE ServicesFileName(getFullYear(date), IsoWeek(date) - i)

\* The document is an object with a category whose value is null.
NullCategory(doc) ==
    /\ doc.t = "obj"
    /\ \E i \in DOMAIN doc.e : doc.e[i].k # "default-update" /\ Nullish(doc.e[i].v)

\* The entries of the current document whose block has an entry for the country,
\* each with that entry's value.
WithEntryFor(entries, countryCode) ==
    [i \in DOMAIN SelectSeq(entries, LAMBDA e : HasKey(e.v, countryCode)) |->
        Entry(SelectSeq(entries, LAMBDA e : HasKey(e.v, countryCode))[i].k,
              Get(SelectSeq(entries, LAMBDA e : HasKey(e.v, countryCode))[i].v, countryCode))]

\* The fetches a call has issued and those that have been answered.
Issued(call) == Len(call.fetched)
Answered(call) == call.i - 1

\* s stands in list as one run of neighbours, in the order of the list.
RunOf(s, list) == \E k \in 0..Len(list) : s = SubSeq(list, k + 1, k + Len(s))

\* s is in ascending order of its names.
AscendingNames(s) == \A j, k \in DOMAIN s : j < k => Precedes(s[j], s[k])

\* What the handlers of the application read of this.weeklyData in the last step.
ChartReads ==
    IF ev.op \in {"onCountryChange", "loadWeeklyDataAsync", "refreshData"}
    THEN {ev} ELSE {}

SortedByTimestamp(list) ==
    \A j, k \in DOMAIN list : j < k => list[j].timestamp <= list[k].timestamp

\* Every load has returned and every handler has run to its end.
AtRest ==
    /\ app.phase = "running"
    /\ app.bg = "done"
    /\ app.rf = "idle"
    /\ \A t \in Tasks : lw[t].pc = "idle"

\* The points of a series of the ChartService as the simple chart holds them.
AsSimple(series) ==
    [i \in DOMAIN series |->
        [week |-> series[i].week, value |-> series[i].y, rawData |-> series[i].rawData]]

\* The two services give the same categories, with the same points in the same
\* order.
SameCharts(chart, simple) ==
    /\ Len(chart) = Len(simple)
    /\ \A i \in DOMAIN chart :
           chart[i].k = simple[i].k /\ AsSimple(chart[i].v) = simple[i].v

\* The year and the week a record's label names.
LabelYear(record) == parseInt(SubSeq(record.week, 1, Len(record.week) - 4))
LabelWeek(record) == parseInt(SubSeq(record.week, Len(record.week) - 1, Len(record.week)))

(* C1: a failed fetch, a non-success status or a malformed body for one     *)
(* snapshot file never aborts loadWeeklyData: every filename of the         *)
(* selected list is fetched, and the returned list holds exactly the files  *)
(* whose fetch succeeded and whose body parsed.                             *)
C1_SkipNeverAborts ==
    \A r \in ReturnSet :
        ~r.caught =>
            /\ r.fetched = slice(r.weeklyFiles.a, -r.maxWeeks)
            /\ SameBag(FileNamesOf(r.value), r.loaded)

(* C2: fetchWithCache memoizes by URL: once a fetchWithCache(url) has       *)
(* succeeded, every later fetchWithCache(url) with no clearCache in between *)
(* issues no network request and returns the same data.                     *)
C2_Memoizes ==
    ev.op = "initialize" =>
        \A url \in URLs :
            ev.prior[url] # {} =>
                /\ ev.slot[url].st = "done"
                /\ \A d \in ev.prior[url] : ev.slot[url].data = <<d>>

(* C3: a fetch that rejects, returns a non-success status or a body that is *)
(* not valid JSON makes fetchWithCache fail and leaves the cache as it was; *)
(* the cache maps a URL only to a body that a successful response for that  *)
(* URL carried.                                                             *)
C3_FailedFetchNotCached ==
    /\ [][(ev'.op = "response" /\ ~ParsedOk(ev'.resp)) =>
              /\ ev'.slot[ev'.url].st = "failed"
              /\ cache' = cache]_vars
    /\ [](\A url \in URLs :
              cache[url] # <<>> => cache[url][1] \in hist.served[url])

\* A fetch was answered with a non-success status and a JSON body while the other
\* URL was cached: the call failed and the URL is still not cached.
C3_Witness ==
    /\ ev.op = "response"
    /\ ev.resp = NotOkJson
    /\ ev.slot[ev.url].st = "failed"
    /\ cache[ev.url] = <<>>
    /\ \E url \in URLs : cache[url] # <<>>

(* C4: when either directory fetch fails, initialize fails and assigns      *)
(* neither this.countries nor this.currentData, which keep their values;    *)
(* the fields change only when an initialize call succeeds, and then both   *)
(* are what that call's own two fetches returned.                           *)
C4_NoPartialInitialize ==
    [][/\ (ev'.op = "response" /\ ~ParsedOk(ev'.resp)
              /\ cw[ev'.task].pc = "initialize") => ev'.join = "rejected"
       /\ (ev'.op \in {"initialize", "response"} /\ ev'.join = "rejected") =>
              (countries' = countries /\ currentData' = currentData)
       /\ (countries' # countries \/ currentData' # currentData) =>
              (ev'.op \in {"initialize", "response"} /\ ev'.join = "fulfilled")
       /\ (ev'.op \in {"initialize", "response"} /\ ev'.join = "fulfilled") =>
              /\ \A url \in URLs : ev'.slot[url].st = "done"
              /\ countries' = ev'.slot["countries"].data
              /\ currentData' = ev'.slot["current"].data]_vars

\* initialize failed on the current-times fetch after its country fetch had
\* returned a new document: both fields keep what an earlier call assigned.
C4_Witness ==
    /\ ev.op = "response"
    /\ ev.join = "rejected"
    /\ ev.slot["countries"].st = "done"
    /\ countries # <<>>
    /\ currentData # <<>>
    /\ ev.slot["countries"].data # countries

(* C5: loadWeeklyData(maxWeeks) fetches exactly the last                    *)
(* min(maxWeeks, length) filenames of the resolved list, so at most         *)
(* maxWeeks files, for every maxWeeks >= 0.                                 *)
C5_AtMostMaxWeeks ==
    \A r \in ReturnSet :
        ~r.caught =>
            /\ Len(r.fetched) <= r.maxWeeks
            /\ r.fetched = LastN(r.weeklyFiles.a, r.maxWeeks)

(* C6: a snapshot whose filename does not match {year}-W{week}.json has     *)
(* null year and week, and getHistoricalData returns what it would return   *)
(* without that snapshot, for every country code and category filter: no    *)
(* record comes from it and no exception is raised because of it.           *)
C6_MalformedNameSkipped ==
    /\ \A k \in DOMAIN weeklyData :
           ~MatchesPattern(weeklyData[k].filename) =>
               weeklyData[k].year = NullInt /\ weeklyData[k].week = NullInt
    /\ ev.op = "getHistoricalData" =>
           ev.result = getHistoricalData(
                           SelectSeq(weeklyData,
                                     LAMBDA w : MatchesPattern(w.filename)),
                           ev.countryCode, ev.category)

\* The aggregator was asked for a country that the ill-named snapshot has an
\* entry for, next to a well-named one, and returned records.
C6_Witness ==
    /\ ev.op = "getHistoricalData"
    /\ ev.countryCode = "IN"
    /\ \E k \in DOMAIN weeklyData : weeklyData[k].filename = FX
    /\ ~ev.result.threw
    /\ ev.result.value # <<>>

(* C7: the list loadWeeklyData returns is sorted ascending by the           *)
(* snapshots' derived timestamp, whatever the filenames and whichever       *)
(* fetches failed, snapshots with null year and week included.              *)
C7_ReturnedSorted ==
    \A r \in ReturnSet :
        \A j, k \in DOMAIN r.value :
            j < k => r.value[j].timestamp <= r.value[k].timestamp

\* A call returned a snapshot with null year and week together with two others,
\* from an index that does not list them in timestamp order.
C7_Witness ==
    \E r \in ReturnSet :
        /\ r.weeklyFiles = JArr(<<F2, FX, F1>>)
        /\ FileNamesOf(r.value) = <<FX, F1, F2>>
        /\ r.value[1].year = NullInt

(* C8 as claimed: fetchWeeklyIndex never fails; on a success status it      *)
(* returns the index content as it is, and on a rejected fetch or a         *)
(* non-success status the list generateWeeklyFileList produces.             *)
C8_AsClaimed ==
    ev.op = "fetchWeeklyIndex" =>
        /\ ~ev.result.threw
        /\ (ev.resp.kind = "response" /\ ev.resp.ok) =>
               /\ ev.resp.body # <<>>
               /\ ev.result.value = ev.resp.body[1]
        /\ (ev.resp.kind = "throw" \/ ~ev.resp.ok) =>
               ev.result.value = JArr(generateWeeklyFileList(now))

(* C8 amended: fetchWeeklyIndex never fails; on a success status with a     *)
(* body that parses it returns the parsed content as it is; on a rejected   *)
(* fetch, a non-success status or a body that is not valid JSON it returns  *)
(* the list generateWeeklyFileList produces.                                *)
C8_IndexOrFallback ==
    ev.op = "fetchWeeklyIndex" =>
        /\ ~ev.result.threw
        /\ IF ev.resp.kind = "response" /\ ev.resp.ok /\ ev.resp.body # <<>>
           THEN ev.result.value = ev.resp.body[1]
           ELSE ev.result.value = JArr(generateWeeklyFileList(now))

\* The index answered with a success status and a body that is not JSON, and
\* fetchWeeklyIndex returned the generated list.
C8_Witness ==
    /\ ev.op = "fetchWeeklyIndex"
    /\ ev.resp = Malformed
    /\ ev.result.value.t = "arr"
    /\ Len(ev.result.value.a) = FallbackWeeks

(* C9: generateWeeklyFileList returns, for every current date, exactly 52  *)
(* filenames, each a four-digit year, '-W', a two-digit week and '.json',   *)
(* naming weeks in strictly ascending chronological order (oldest first, no *)
(* week twice), year boundaries included.                                   *)
C9_FileListAscending ==
    files # <<>> =>
        /\ Len(files) = 52
        /\ \A k \in DOMAIN files : Len(files[k]) = 13 /\ MatchesAt(files[k], 1)
        /\ \A j, k \in DOMAIN files :
               j < k =>
                   \/ parseWeekFilename(files[j]).year < parseWeekFilename(files[k]).year
                   \/ /\ parseWeekFilename(files[j]).year = parseWeekFilename(files[k]).year
                      /\ parseWeekFilename(files[j]).week < parseWeekFilename(files[k]).week

(* C10: getWeekNumber(date) is the ISO-8601 week number of the date (week 1 *)
(* holds the year's first Thursday, weeks start on Monday), and so lies in  *)
(* 1..53, for every calendar date.                                          *)
C10_WeekNumberIsIso ==
    wk # <<>> => /\ wk[1] = IsoWeek(now)
                 /\ wk[1] \in 1..53

\* getWeekNumber has been applied to a Sunday in January that belongs to week 52
\* or 53 of the year before.
C10_Witness ==
    /\ wk # <<>>
    /\ getUTCDay(now) = 0
    /\ getMonth(now) = 0
    /\ wk[1] >= 52

(* C11: extractProcessingTime is total: for every JSON value (string,       *)
(* number, boolean, null, array, object, nested to any depth) it returns a  *)
(* number or null and never throws, and it returns null for an array and    *)
(* for an object that has none of the probed keys.                          *)
C11_ExtractTotal ==
    ev.op = "extractProcessingTime" =>
        /\ ~ev.result.threw
        /\ Len(ev.result.value) <= 1
        /\ \A k \in DOMAIN ev.result.value :
               /\ ev.result.value[k].n \in Int
               /\ \A j \in DOMAIN ev.result.value[k].f :
                      IsDigit(ev.result.value[k].f[j])
        /\ (arg.t = "arr" \/ (arg.t = "obj" /\ \A k \in ProbedKeys : ~HasKey(arg, k))) =>
               ev.result.value = <<>>

\* The extractor was applied to an object nested twice and returned the number in
\* the innermost string.
C11_Witness ==
    /\ ev.op = "extractProcessingTime"
    /\ arg = JObj(<<Entry("time", JObj(<<Entry("days", JStr(Chars1Point50))>>))>>)
    /\ ev.result = Returned(<<Float(1, <<"5">>)>>)

(* C12: on an object extractProcessingTime probes the keys months, days,    *)
(* weeks, time, duration in that order and returns the extraction of the    *)
(* value of the first of them that is present, also when that extraction is *)
(* null (no later key is tried); with none of the five present it returns   *)
(* null.                                                                    *)
C12_FirstPresentKey ==
    (ev.op = "extractProcessingTime" /\ arg.t = "obj") =>
        IF \E i \in 1..5 : HasKey(arg, KeyOrder[i])
        THEN ev.result =
                 extractProcessingTime(
                     Get(arg, KeyOrder[CHOOSE i \in 1..5 :
                                  /\ HasKey(arg, KeyOrder[i])
                                  /\ \A j \in 1..(i - 1) : ~HasKey(arg, KeyOrder[j])]))
        ELSE ev.result = Returned(<<>>)

\* The extractor was applied to an object that lists days, with a number, before
\* months, with null, and returned null.
C12_Witness ==
    /\ ev.op = "extractProcessingTime"
    /\ arg = JObj(<<Entry("days", JNum(7)), Entry("months", JNull)>>)
    /\ ev.result = Returned(<<>>)

(* C13: getHistoricalData(countryCode, category) yields, for each snapshot  *)
(* with non-null year and week, one record for every category block that    *)
(* has an entry for countryCode, whatever the entry's value (0 included),   *)
(* or for the one category of the filter; every record carries country =    *)
(* countryCode, and the filtered result is the unfiltered result restricted *)
(* to that category.                                                        *)
C13_EveryEntryRecorded ==
    ev.op = "getHistoricalData" =>
        /\ ~ev.result.threw
        /\ \A k \in DOMAIN weeklyData :
               \A i \in DOMAIN weeklyData[k].data.e :
                   (/\ weeklyData[k].year # NullInt
                    /\ weeklyData[k].week # NullInt
                    /\ HasKey(weeklyData[k].data.e[i].v, ev.countryCode)
                    /\ ev.category \in {<<>>, <<weeklyData[k].data.e[i].k>>}) =>
                       \E j \in DOMAIN ev.result.value :
                           ev.result.value[j] =
                               HistoricalRecord(weeklyData[k], weeklyData[k].data.e[i].k,
                                                ev.countryCode,
                                                Get(weeklyData[k].data.e[i].v,
                                                    ev.countryCode))
        /\ \A j \in DOMAIN ev.result.value :
               ev.result.value[j].country = ev.countryCode
        /\ ev.category # <<>> =>
               ev.result.value =
                   SelectSeq(getHistoricalData(weeklyData, ev.countryCode, <<>>).value,
                             LAMBDA r : r.category = ev.category[1])

(* C14: prepareChartData makes a Historical Record a point of its           *)
(* category's series if and only if extractProcessingTime of its raw value  *)
(* is not null; every point of every series has a numeric y, and no         *)
(* category has an empty series.                                            *)
C14_PointsAreNumeric ==
    ev.op = "prepareChartData" =>
        /\ \A i \in DOMAIN ev.result :
               /\ ev.result[i].v # <<>>
               /\ SameBag(ev.result[i].v, PointsOf(Charted(arg, ev.result[i].k)))
               /\ \A j \in DOMAIN ev.result[i].v :
                      /\ Len(ev.result[i].v[j].y) = 1
                      /\ ev.result[i].v[j].y[1].n \in Int
               /\ \A j \in DOMAIN ev.result : ev.result[j].k = ev.result[i].k => j = i
        /\ \A c \in Categories :
               Charted(arg, c) # <<>> => \E i \in DOMAIN ev.result : ev.result[i].k = c

\* prepareChartData was given a record with a value without a number between two
\* records of another category, and a category with no number at all.
C14_Witness ==
    /\ ev.op = "prepareChartData"
    /\ arg = <<RecordOf(F1, "visitor", JStr(Chars12Days)),
               RecordOf(F1, "study", JStr(CharsNone)),
               RecordOf(F2, "visitor", JNum(0))>>
    /\ Len(ev.result) = 1
    /\ Len(ev.result[1].v) = 2

(* C15: prepareChartData returns each category's series sorted ascending by *)
(* the snapshot's derived timestamp, points with the same timestamp keeping *)
(* their relative input order; records given with strictly increasing       *)
(* timestamps come back in the same order.                                  *)
C15_SeriesSortedStable ==
    ev.op = "prepareChartData" =>
        \A i \in DOMAIN ev.result :
            /\ \A j, k \in DOMAIN ev.result[i].v :
                   j < k => ev.result[i].v[j].x <= ev.result[i].v[k].x
            /\ \A p \in {ev.result[i].v[j] : j \in DOMAIN ev.result[i].v} :
                   SelectSeq(ev.result[i].v, LAMBDA q : q.x = p.x) =
                       SelectSeq(PointsOf(Charted(arg, ev.result[i].k)),
                                 LAMBDA q : q.x = p.x)
            /\ (\A j, k \in DOMAIN Charted(arg, ev.result[i].k) :
                    j < k => Charted(arg, ev.result[i].k)[j].date
                                 < Charted(arg, ev.result[i].k)[k].date) =>
                   ev.result[i].v = PointsOf(Charted(arg, ev.result[i].k))

\* prepareChartData was given a later week first and then two records of the
\* same earlier week, with different values.
C15_Witness ==
    /\ ev.op = "prepareChartData"
    /\ arg = <<RecordOf(F2, "visitor", JNum(0)),
               RecordOf(F1, "visitor", JStr(Chars12Days)),
               RecordOf(F1, "visitor", JNum(0))>>
    /\ ev.result[1].v = PointsOf(<<arg[2], arg[3], arg[1]>>)

(* C16: calculateTrend reports trend 'insufficient-data' with change 0      *)
(* whenever one of the two windows (the last 4 points, the 4 points before  *)
(* them) holds fewer than 4 points, that is for every series of fewer than  *)
(* 8 points.                                                                *)
C16_InsufficientBelowEight ==
    (ev.op = "calculateTrend" /\ Len(arg) < 8) => ev.result = InsufficientData

(* C17: calculateTrend never returns a change that is not finite: a zero    *)
(* mean of the older window is handled, not propagated as Infinity or NaN.  *)
C17_ChangeFinite ==
    ev.op = "calculateTrend" => ev.result.change.kind = "finite"

(* C18: on a series of at least 8 points whose older mean is not zero,      *)
(* calculateTrend returns change = (recentAvg - olderAvg) / olderAvg * 100  *)
(* rounded to 2 decimals, recentAvg being the mean of the last 4 points and *)
(* olderAvg the mean of the 4 before them, and the trend 'increasing' when  *)
(* the change is above 5, 'decreasing' when it is below -5, 'stable'        *)
(* otherwise.                                                               *)
C18_PercentChange ==
    (ev.op = "calculateTrend" /\ Len(arg) >= 8 /\ FourBeforeSum(arg) # 0) =>
        /\ ev.result.change.kind = "finite"
        /\ ev.result.change.q = 100
           \* the change in hundredths is the integer nearest to 10000 (R - O) / O
        /\ \/ /\ FourBeforeSum(arg) > 0
              /\ 2 * (ev.result.change.p * FourBeforeSum(arg)
                        - 10000 * (LastFourSum(arg) - FourBeforeSum(arg)))
                     \in (1 - FourBeforeSum(arg))..FourBeforeSum(arg)
           \/ /\ FourBeforeSum(arg) < 0
              /\ 2 * (ev.result.change.p * FourBeforeSum(arg)
                        - 10000 * (LastFourSum(arg) - FourBeforeSum(arg)))
                     \in FourBeforeSum(arg)..(-1 - FourBeforeSum(arg))
        /\ ev.result.trend = "increasing" <=>
               \/ /\ FourBeforeSum(arg) > 0
                  /\ 100 * (LastFourSum(arg) - FourBeforeSum(arg)) > 5 * FourBeforeSum(arg)
               \/ /\ FourBeforeSum(arg) < 0
                  /\ 100 * (LastFourSum(arg) - FourBeforeSum(arg)) < 5 * FourBeforeSum(arg)
        /\ ev.result.trend = "decreasing" <=>
               \/ /\ FourBeforeSum(arg) > 0
                  /\ 100 * (LastFourSum(arg) - FourBeforeSum(arg)) < -5 * FourBeforeSum(arg)
               \/ /\ FourBeforeSum(arg) < 0
                  /\ 100 * (LastFourSum(arg) - FourBeforeSum(arg)) > -5 * FourBeforeSum(arg)
        /\ ev.result.trend \in {"increasing", "decreasing", "stable"}

\* Eight points, the last four averaging 20 against 10 for the four before:
\* increasing, by 100.
C18_Witness ==
    /\ ev.op = "calculateTrend"
    /\ arg = <<[y |-> 0], [y |-> 20], [y |-> 0], [y |-> 20],
               [y |-> 20], [y |-> 20], [y |-> 20], [y |-> 20]>>
    /\ ev.result = [trend |-> "increasing", change |-> Hundredths(10000)]

(* C19: when lastupdated appears in more than one category block of the    *)
(* current processing-times document, the last-updated value shown to the   *)
(* user is that of the last such block in document order.                   *)
C19_LastBlockWins ==
    (/\ ev.op \in {"displayLastUpdated", "scriptLastUpdated"}
     /\ currentData # <<>>
     /\ Len(Dated(currentData[1])) >= 2) =>
        ev.shown =
            Returned(<<Get(Dated(currentData[1])[Len(Dated(currentData[1]))].v,
                           "lastupdated")>>)

C21_ErrorOnlyAfterFiveProbes ==
    (ev.op = "loadInCanadaServices" /\ ev.error) =>
        /\ ev.search.fallback
        /\ Len(ev.search.probed) = 5
        /\ \A k \in DOMAIN ev.search.probed : ~ev.search.probed[k].ok

(* C21 as amended: loadInCanadaServices shows its error message exactly     *)
(* when the search threw, all five existence checks having been issued and  *)
(* having failed, or when the search returned a file and loading it failed: *)
(* the request threw, the response was not ok, its body was not JSON, or    *)
(* filling the tab from the document threw.                                 *)
C21_ErrorWhenSearchOrFileFails ==
    ev.op = "loadInCanadaServices" =>
        (ev.error <=>
            \/ /\ ev.search.result.threw
               /\ ev.search.fallback
               /\ Len(ev.search.probed) = 5
               /\ \A k \in DOMAIN ev.search.probed : ~ev.search.probed[k].ok
               /\ ev.file = <<>>
            \/ /\ ~ev.search.result.threw
               /\ ev.file # <<>>
               /\ \/ ev.file[1].kind = "throw"
                  \/ ~ev.file[1].ok
                  \/ ev.file[1].body = <<>>
                  \/ Nullish(ev.file[1].body[1])
                  \/ NullCategory(ev.file[1].body[1]))

\* The index named a services file, no existence check was issued, and the
\* request for the file was answered 'not ok': the error is shown.
C21_Witness ==
    /\ ev.op = "loadInCanadaServices"
    /\ ev.error
    /\ ~ev.search.fallback
    /\ ev.file = <<NotOk>>
    /\ tab.error = "shown"

(* C22: getCountryData(code) returns the categories of the current document *)
(* whose block has an entry for the country code, each with its raw value,  *)
(* and null when there is none; the table shows one row per category, or    *)
(* the single 'No processing time data available' row exactly when the      *)
(* result is null.                                                          *)
C22_CategoriesWithEntry ==
    (ev.op \in {"getCountryData", "displayCurrentData"} /\ currentData # <<>>) =>
        /\ ev.result =
               IF WithEntryFor(EntriesOf(currentData[1]), arg) = <<>>
               THEN Returned(<<>>)
               ELSE Returned(<<JObj(WithEntryFor(EntriesOf(currentData[1]), arg))>>)
        /\ ev.op = "displayCurrentData" =>
               /\ ~ev.rows.threw
               /\ (ev.rows.value = <<NoDataRow>>) <=> (ev.result.value = <<>>)
               /\ ev.result.value # <<>> =>
                      /\ Len(ev.rows.value) = Len(ev.result.value[1].e)
                      /\ \A i \in DOMAIN ev.rows.value :
                             ev.rows.value[i].category = ev.result.value[1].e[i].k

(* C23: within one loadWeeklyData call the snapshot fetches are sequential  *)
(* and ordered: at most one is in flight, the fetch of a file is issued     *)
(* only after the answer to the previous one, and the files are fetched in  *)
(* ascending filename order.                                                *)
C23_SequentialAscending ==
    /\ \A t \in Tasks :
           lw[t].pc = "file" =>
               /\ Issued(lw[t]) - Answered(lw[t]) = 1
               /\ AscendingNames(lw[t].fetched)
    /\ \A r \in ReturnSet : AscendingNames(r.fetched)

(* C23 as amended: within one loadWeeklyData call at most one snapshot       *)
(* fetch is in flight, the fetch of a file is issued only after the answer  *)
(* to the previous one, and the files are fetched in the order in which the *)
(* resolved list names them.                                                *)
C23_SequentialInListOrder ==
    /\ \A t \in Tasks :
           lw[t].pc = "file" =>
               /\ Issued(lw[t]) - Answered(lw[t]) = 1
               /\ RunOf(lw[t].fetched, lw[t].weeklyFiles.a)
    /\ \A r \in ReturnSet : ~r.caught => RunOf(r.fetched, r.weeklyFiles.a)

\* The index lists a later file before an earlier one; the first fetch of a call
\* has been answered and the second is in flight.
C23_Witness ==
    \E t \in Tasks :
        /\ lw[t].pc = "file"
        /\ lw[t].weeklyFiles = JArr(<<F2, FX, F1>>)
        /\ lw[t].fetched = <<F2, FX>>
        /\ lw[t].i = 2

(* C24: the snapshot list has no concurrent writers: under any interleaving *)
(* of the background load init starts, refresh clicks and country changes,  *)
(* no two loadWeeklyData invocations write the list during overlapping      *)
(* periods, and the list never holds two snapshots for the same filename.   *)
C24_NoConcurrentWriters ==
    /\ Cardinality(Writers) <= 1
    /\ \A j, k \in DOMAIN weeklyData :
           j # k => weeklyData[j].filename # weeklyData[k].filename

(* C25: every loadWeeklyData invocation whose fetches are all answered      *)
(* resolves and never rejects, after issuing at most                        *)
(* 1 + min(maxWeeks, number of resolved filenames) fetches; stated of the   *)
(* invocations that have resolved: the index fetch and the snapshot fetches *)
(* they issued are no more than that.                                       *)
C25_ResolvesWithinBound ==
    \A r \in ReturnSet :
        r.weeklyFiles.t = "arr" =>
            /\ ~r.caught
            /\ 1 + Len(r.fetched) <= 1 + Min(r.maxWeeks, Len(r.weeklyFiles.a))

(* C26: the aggregation operations only read: getHistoricalData and         *)
(* prepareChartData leave DataService.weeklyData as it was (the same        *)
(* snapshots, in the same order, with the same payloads) and leave the      *)
(* Historical Records handed to prepareChartData as they were.              *)
C26_AggregationReadsOnly ==
    [][(ev'.op \in {"getHistoricalData", "prepareChartData"}) =>
          (weeklyData' = weeklyData /\ arg' = arg)]_vars

\* prepareChartData was given two records of one category, the later one first,
\* and returned the series in date order, with snapshots loaded and the records
\* still as handed in.
C26_Witness ==
    /\ ev.op = "prepareChartData"
    /\ weeklyData # <<>>
    /\ Len(arg) = 2
    /\ arg[1].category = arg[2].category
    /\ arg[1].date > arg[2].date
    /\ ev.result[1].v[1].x = arg[2].date

(* C27: a country-change handler never charts a partially loaded list:      *)
(* whenever onCountryChange or displayHistoricalChart reads the snapshot    *)
(* list, it is empty or the complete, timestamp-sorted result of a finished *)
(* loadWeeklyData call.                                                     *)
C27_NeverReadsPartialList ==
    \A e \in ChartReads :
        \/ e.read[1] = <<>>
        \/ e.writers = {} /\ SortedByTimestamp(e.read[1])

(* C28: once loadWeeklyData has finished and a country is selected, in      *)
(* whichever order, the chart area comes to show the chart or the 'No       *)
(* historical data available' message of the selected country: with every   *)
(* load returned and every handler at its end, it is not left on 'Loading   *)
(* historical data...' or 'Select a country to view historical data'.       *)
C28_ChartAreaSettles ==
    (AtRest /\ app.loaded /\ app.currentCountry # <<>>) =>
        /\ app.chart.kind \in {"chart", "No historical data available for this country"}
        /\ app.chart.country = app.currentCountry

(* C29: whenever a loadWeeklyData call completes, the list it returns is     *)
(* the content of DataService.weeklyData at that moment, also when the call *)
(* takes its outer error path and returns an empty list.                    *)
C29_ReturnsTheList ==
    \A r \in ReturnSet : r.value = weeklyData

(* C30: for every list of Historical Records of snapshots with a four-digit *)
(* year and a two-digit week 01..99, ChartService.prepareChartData, which   *)
(* orders by the derived timestamp, and SimpleChartService.prepareChartData,*)
(* which orders by the week label, give the same categories, the same       *)
(* values and the same order of points within each category.                *)
C30_SameCharts ==
    ev.op = "prepareBoth" => SameCharts(ev.chart, ev.simple)

(* C30 as amended: the two give the same categories, values and order of    *)
(* points for every list of Historical Records of snapshots with a year     *)
(* from 1000 to 9999 and a week 01..53.                                     *)
C30_SameChartsOfCalendarWeeks ==
    (/\ ev.op = "prepareBoth"
     /\ \A i \in DOMAIN arg : LabelYear(arg[i]) >= 1000 /\ LabelWeek(arg[i]) \in 1..53) =>
        SameCharts(ev.chart, ev.simple)

\* Two records of one category, week 01 of 2024 handed in before week 53 of 2023:
\* both services put week 53 of 2023 first.
C30_Witness ==
    /\ ev.op = "prepareBoth"
    /\ Len(arg) = 2
    /\ arg[1].category = arg[2].category
    /\ LabelYear(arg[1]) = 2024 /\ LabelWeek(arg[1]) = 1
    /\ LabelYear(arg[2]) = 2023 /\ LabelWeek(arg[2]) = 53
    /\ Len(ev.simple) = 1
    /\ Len(ev.simple[1].v) = 2
    /\ ev.simple[1].v[1].week = arg[2].week
    /\ ev.chart[1].v[1].week = arg[2].week

====
